---- MODULE Spec2Model ----
(***************************************************************************)
(* A model of the ARM access-port layer of probe-rs:                       *)
(*   - ArmProbe::read / ArmProbe::write (architecture/arm/mod.rs), the     *)
(*     byte-range splicer built over the word and byte transfers;          *)
(*   - MemoryApT::set_target_address / read_data / write_data              *)
(*     (architecture/arm/ap/memory/mod.rs);                                *)
(*   - valid_access_ports / access_port_is_valid                           *)
(*     (architecture/arm/ap/v1/mod.rs);                                    *)
(*   - the register codecs (architecture/arm/ap/v2/mod.rs) and the typed   *)
(*     register access built on them (architecture/arm/ap/mod.rs);         *)
(*   - the APB2/APB3 memory AP (ap/memory/amba_apb2_apb3.rs);              *)
(*   - the nRF recover sequence (examples/nrf53_recover.rs) and the        *)
(*     lock-status queries (config/sequences/nrf53.rs, nrf91.rs);          *)
(*   - MemoryAp::new (architecture/arm/ap/memory/mod.rs);                  *)
(*   - read_ap_information (architecture/arm/ap/v1/mod.rs and              *)
(*     architecture/arm/ap/v2/mod.rs).                                     *)
(*                                                                         *)
(* TLC's integers are 32-bit signed.  A u32 is held as a natural number    *)
(* below 2^31 (the byte values of the model are below 0x80, so that every  *)
(* word packed from them fits), and a u64 whose upper half matters is held *)
(* as its two u32 halves.                                                  *)
(***************************************************************************)
EXTENDS Integers, Sequences, FiniteSets, TLC

\* ---------------------------------------------------------------- bounds
\* Highest address a byte-range request starts at.
MaxAddr == 3
\* Longest byte-range request.
MaxLen == 8
\* Longest `values` slice of read_data / write_data.
MaxWords == 3

VARIABLES
    \* --- ArmProbe::read / write
    mem,                \* target memory, one byte per address
    supports8,          \* what supports_8bit_transfers() returns
    pc,                 \* position inside the running call, "idle" between calls
    op,                 \* the last call: "none", "write", "read"
    arg_address,        \* the call's `address` argument
    arg_data,           \* write: the call's `data`; read: `data` as passed in
    address,            \* write: the `mut address` local
    data,               \* write: the `mut data` slice; read: the `data` buffer
    start_extra_count,
    end_extra_count,
    inbetween_count,
    buffer,             \* the Vec<u32> local
    xfers,              \* the transfers the call has issued, in order
    ret,                \* "none" while running, else the call's outcome
    req_address,        \* the range a behaviour's writes go to ...
    req_data,           \* ... and the bytes they write there
    wr_ret,             \* the outcome of the latest write ("none": no write yet)
    wr_mem0,            \* the memory when the latest write started
    \* --- MemoryApT::set_target_address / read_data / write_data
    ap_large,           \* has_large_address_extension()
    ap_pc,              \* position inside the running call, "idle" between calls
    ap_op,              \* the last call
    ap_address,         \* set_target_address: the `address` argument
    values,             \* read_data / write_data: the `values` slice
    values0,            \* `values` as passed in
    ap_i,               \* read_data / write_data: words done so far
    ap_log,             \* the register accesses the call has issued, in order
    ap_ret,             \* "none" while running, else the call's outcome
    \* --- valid_access_ports
    scan_pc,            \* "idle", "scan", "done"
    scan_ap,            \* the AP index the iterator is at
    scan_found,         \* the GenericAps collected so far (their indices)
    scan_log,           \* the IDR reads issued, in order, with their results
    \* --- typed register access
    rg_reg,             \* the register type R of the calls
    rg_raw,             \* the raw value the register holds on the target
    rg_raw0,            \* the raw value it held at first
    rg_op,              \* the last call: "none", "read", "write", ...
    rg_port,            \* the port of the last call
    rg_log,             \* the raw accesses the last call issued, in order
    rg_ret,             \* the result of the last call
    rg_value,           \* the register value the latest successful read returned
    rg_prev,            \* the register value the caller held before the latest read
    \* --- AmbaApb2Apb3
    apb_hw_csw,         \* the raw value the target's CSW register holds
    apb_hw_cfg,         \* the raw value the target's CFG register holds
    apb_pc,             \* position inside new(), "idle" between calls
    apb_op,             \* the last call
    apb_arg,            \* its arguments
    apb_me,             \* the AmbaApb2Apb3 { csw, cfg } the caller holds
    apb_me0,            \* the same before the last call
    apb_raw_csw,        \* new(): the raw CSW read
    apb_raw_cfg,        \* new(): the raw CFG read
    apb_log,            \* the register accesses the last call issued
    apb_ret,            \* the result of the last call
    \* --- the nRF recover sequence and the lock-status queries
    rc_hw_csw,          \* the raw CSW the cores' AHB APs hold
    rc_hw_approtect,    \* the nRF9160 control AP's register 0x00C
    rc_erase_time,      \* per control AP: non-zero status reads an erase takes
    rc_busy,            \* per control AP: non-zero status reads still to come
    rc_pc,              \* position inside main: "idle", "idr", "erase", "poll",
                        \* "done", "failed"
    rc_i,               \* index of the AP the running loop is at
    rc_polls,           \* status reads of the current control AP so far
    rc_log,             \* the raw accesses main has issued, in order
    rc_ret,             \* what main returned
    rc_qop,             \* the last lock-status query: <<chip, ahb_ap, ctrl_ap>>
    rc_qlog,            \* the raw accesses that query issued
    rc_qret,            \* what it returned
    rc_reports,         \* the control APs a query has reported locked
    \* --- MemoryAp::new
    mn_hw_idr,          \* the raw value the target's IDR register holds
    mn_pc,              \* position inside new(), "idle" between calls
    mn_raw_idr,         \* the raw IDR read
    mn_log,             \* the register accesses the last call issued
    mn_ret,             \* the result of the last call
    mn_ap,              \* the MemoryAp the last call built
    \* --- read_ap_information
    ai_version,         \* "v1" or "v2": the module whose function is called
    ai_hw,              \* the raw values of the AP's registers on the target
    ai_only32,          \* the AP keeps SIZE at 32 bits whatever is written
    ai_pc,              \* position inside the call, "idle" between calls
    ai_loc,             \* the typed values read so far (idr, base, ...)
    ai_log,             \* the register accesses the last call issued
    ai_ret              \* the result of the last call

probeVars == <<mem, supports8, pc, op, arg_address, arg_data, address, data,
               start_extra_count, end_extra_count, inbetween_count, buffer,
               xfers, ret, req_address, req_data, wr_ret, wr_mem0>>

apVars == <<ap_large, ap_pc, ap_op, ap_address, values, values0, ap_i, ap_log,
            ap_ret>>

scanVars == <<scan_pc, scan_ap, scan_found, scan_log>>

regVars == <<rg_reg, rg_raw, rg_raw0, rg_op, rg_port, rg_log, rg_ret, rg_value,
             rg_prev>>

apbVars == <<apb_hw_csw, apb_hw_cfg, apb_pc, apb_op, apb_arg, apb_me, apb_me0,
             apb_raw_csw, apb_raw_cfg, apb_log, apb_ret>>

recVars == <<rc_hw_csw, rc_hw_approtect, rc_erase_time, rc_busy, rc_pc, rc_i,
             rc_polls, rc_log, rc_ret, rc_qop, rc_qlog, rc_qret, rc_reports>>

newVars == <<mn_hw_idr, mn_pc, mn_raw_idr, mn_log, mn_ret, mn_ap>>

infoVars == <<ai_version, ai_hw, ai_only32, ai_pc, ai_loc, ai_log, ai_ret>>

vars == <<probeVars, apVars, scanVars, regVars, apbVars, recVars, newVars,
          infoVars>>

\* Each machine leaves the others alone.
ProbeFrame == UNCHANGED <<apVars, scanVars, regVars, apbVars, recVars,
                          newVars, infoVars>>
ApFrame == UNCHANGED <<probeVars, scanVars, regVars, apbVars, recVars,
                          newVars, infoVars>>
ScanFrame == UNCHANGED <<probeVars, apVars, regVars, apbVars, recVars,
                          newVars, infoVars>>
RegFrame == UNCHANGED <<probeVars, apVars, scanVars, apbVars, recVars,
                          newVars, infoVars>>
ApbFrame == UNCHANGED <<probeVars, apVars, scanVars, regVars, recVars,
                          newVars, infoVars>>
RecFrame == UNCHANGED <<probeVars, apVars, scanVars, regVars, apbVars,
                          newVars, infoVars>>
NewFrame == UNCHANGED <<probeVars, apVars, scanVars, regVars, apbVars,
                          recVars, infoVars>>
InfoFrame == UNCHANGED <<probeVars, apVars, scanVars, regVars, apbVars,
                         recVars, newVars>>

\* ------------------------------------------------------------- helpers
Min(a, b) == IF a <= b THEN a ELSE b

\* data[from..to) of a Rust slice (0-based, half open) as a sequence.
Slice(s, from, to) == [i \in 1..(to - from) |-> s[from + i]]

\* Rust's range index s[from..to] panics unless from <= to <= s.len().
SliceInRange(n, from, to) == from <= to /\ to <= n

\* u32::from_le_bytes([b0, b1, b2, b3])
FromLeBytes(b0, b1, b2, b3) == b0 + 256 * b1 + 65536 * b2 + 16777216 * b3

\* u32::to_le_bytes(value)
ToLeBytes(value) ==
    << value % 256, (value \div 256) % 256,
       (value \div 65536) % 256, (value \div 16777216) % 256 >>

\* Highest address of the modelled memory: every over-fetched word is inside.
MemTop == ((MaxAddr + MaxLen + 3) \div 4) * 4 + 3

\* The pre-filled memory: a sentinel byte that differs from address to address.
Sentinel(x) == 64 + (x % 64)

\* The byte a read buffer holds before the call.
Fill == 127

\* The byte patterns a caller writes: distinct bytes, or one repeated byte.
Pattern(p, n) == [i \in 1..n |-> IF p = 1 THEN 16 + i ELSE 42]

DataSet == { Pattern(p, n) : p \in {1, 2}, n \in 0..MaxLen }

\* The target's memory under write_8(address, bytes).
MemWrite8(m, a, bytes) ==
    [x \in DOMAIN m |->
        IF a <= x /\ x < a + Len(bytes) THEN bytes[x - a + 1] ELSE m[x]]

\* The target's memory under write_32(address, words): little-endian words.
MemWrite32(m, a, words) ==
    [x \in DOMAIN m |->
        IF a <= x /\ x < a + 4 * Len(words)
        THEN ToLeBytes(words[((x - a) \div 4) + 1])[((x - a) % 4) + 1]
        ELSE m[x]]

\* What read_32(address, buffer) stores into a buffer of n words.
MemRead32(m, a, n) ==
    [j \in 1..n |-> FromLeBytes(m[a + 4 * (j - 1)], m[a + 4 * (j - 1) + 1],
                                m[a + 4 * (j - 1) + 2], m[a + 4 * (j - 1) + 3])]

\* One issued transfer.
Xfer(kind, a, payload, ok) ==
    [kind |-> kind, address |-> a, payload |-> payload, ok |-> ok]

\* ------------------------------------------------------ ArmProbe::write
\* StartExtraCount without the `% 4` that maps an aligned address to 0.
StartExtraCountNoModulo(a, len) == Min(4 - (a % 4), len)

\* let start_extra_count = ((4 - (address % 4) as usize) % 4).min(len);
StartExtraCount(a, len) == Min((4 - (a % 4)) % 4, len)

\* let end_extra_count = (len - start_extra_count) % 4;
EndExtraCount(a, len) == (len - StartExtraCount(a, len)) % 4

\* let inbetween_count = len - start_extra_count - end_extra_count;
InbetweenCount(a, len) == len - StartExtraCount(a, len) - EndExtraCount(a, len)

\* WriteUnaligned without the test of the length.
WriteUnalignedAddressOnly(a, len) == a % 4 # 0

\* if address % 4 != 0 || len % 4 != 0
WriteUnaligned(a, len) == a % 4 # 0 \/ len % 4 # 0

\* PackWords with the bytes of each word taken in big-endian order.
PackWordsBigEndian(d, nwords) ==
    [j \in 1..Min(nwords, Len(d) \div 4) |->
        FromLeBytes(d[4 * j], d[4 * j - 1], d[4 * j - 2], d[4 * j - 3])]

\* The words of the interior run:
\* for (bytes, value) in data.chunks_exact(4).zip(buffer.iter_mut())
PackWords(d, nwords) ==
    [j \in 1..Min(nwords, Len(d) \div 4) |->
        FromLeBytes(d[4 * j - 3], d[4 * j - 2], d[4 * j - 1], d[4 * j])]

\* The call ends: back to "idle" with its outcome.
Finish(r) == pc' = "idle" /\ ret' = r

\* A write ends.
FinishWrite(r) == Finish(r) /\ wr_ret' = r

\* write(): the locals computed on entry, and the three assert!s.
CallWrite(a, d) ==
    /\ ProbeFrame
    /\ pc = "idle"
    /\ op' = "write"
    /\ arg_address' = a
    /\ arg_data' = d
    /\ address' = a
    /\ data' = d
    /\ start_extra_count' = StartExtraCount(a, Len(d))
    /\ end_extra_count' = EndExtraCount(a, Len(d))
    /\ inbetween_count' = InbetweenCount(a, Len(d))
    /\ buffer' = <<>>
    /\ xfers' = <<>>
    /\ wr_mem0' = mem
    /\ IF /\ StartExtraCount(a, Len(d)) < 4
          /\ EndExtraCount(a, Len(d)) < 4
          /\ InbetweenCount(a, Len(d)) % 4 = 0
       THEN pc' = "write_head" /\ ret' = "none" /\ wr_ret' = "none"
       ELSE FinishWrite("panic")
    /\ UNCHANGED <<mem, supports8, req_address, req_data>>

\* The unaligned head: the capability check and the leading write_8.
WriteHead ==
    /\ ProbeFrame
    /\ pc = "write_head"
    /\ IF WriteUnaligned(address, Len(arg_data))
       THEN CASE supports8 = "err" ->
                    /\ FinishWrite("Err")
                    /\ UNCHANGED <<mem, address, data, xfers>>
              [] supports8 = "no" ->
                    /\ FinishWrite("MemoryNotAligned")
                    /\ UNCHANGED <<mem, address, data, xfers>>
              [] supports8 = "yes" ->
                    \E ok \in BOOLEAN :
                        /\ xfers' = Append(xfers,
                              Xfer("write_8", address,
                                   Slice(data, 0, start_extra_count), ok))
                        /\ IF ok
                           THEN /\ mem' = MemWrite8(mem, address,
                                           Slice(data, 0, start_extra_count))
                                /\ address' = address + start_extra_count
                                /\ data' = Slice(data, start_extra_count, Len(data))
                                /\ pc' = "write_body"
                                /\ UNCHANGED <<ret, wr_ret>>
                           ELSE /\ FinishWrite("Err")
                                /\ UNCHANGED <<mem, address, data>>
       ELSE /\ pc' = "write_body"
            /\ UNCHANGED <<mem, address, data, xfers, ret, wr_ret>>
    /\ UNCHANGED <<supports8, op, arg_address, arg_data, start_extra_count,
                   end_extra_count, inbetween_count, buffer, req_address,
                   req_data, wr_mem0>>

\* The interior run of whole words: one write_32.
WriteBody ==
    /\ ProbeFrame
    /\ pc = "write_body"
    /\ IF inbetween_count > 0
       THEN \E ok \in BOOLEAN :
                /\ buffer' = PackWords(data, inbetween_count \div 4)
                /\ xfers' = Append(xfers, Xfer("write_32", address, buffer', ok))
                /\ IF ok
                   THEN /\ mem' = MemWrite32(mem, address, buffer')
                        /\ address' = address + inbetween_count
                        /\ data' = Slice(data, inbetween_count, Len(data))
                        /\ pc' = "write_tail"
                        /\ UNCHANGED <<ret, wr_ret>>
                   ELSE /\ FinishWrite("Err")
                        /\ UNCHANGED <<mem, address, data>>
       ELSE /\ pc' = "write_tail"
            /\ UNCHANGED <<mem, address, data, buffer, xfers, ret, wr_ret>>
    /\ UNCHANGED <<supports8, op, arg_address, arg_data, start_extra_count,
                   end_extra_count, inbetween_count, req_address, req_data,
                   wr_mem0>>

\* The trailing bytes: one write_8, then Ok(()).
WriteTail ==
    /\ ProbeFrame
    /\ pc = "write_tail"
    /\ IF end_extra_count > 0
       THEN \E ok \in BOOLEAN :
                /\ xfers' = Append(xfers,
                      Xfer("write_8", address, Slice(data, 0, end_extra_count), ok))
                /\ IF ok
                   THEN /\ mem' = MemWrite8(mem, address,
                                            Slice(data, 0, end_extra_count))
                        /\ FinishWrite("Ok")
                   ELSE /\ FinishWrite("Err")
                        /\ mem' = mem
       ELSE /\ FinishWrite("Ok")
            /\ UNCHANGED <<mem, xfers>>
    /\ UNCHANGED <<supports8, op, arg_address, arg_data, address, data,
                   start_extra_count, end_extra_count, inbetween_count, buffer,
                   req_address, req_data, wr_mem0>>

\* ------------------------------------------------------- ArmProbe::read
\* if address % 4 == 0 && len % 4 == 0
ReadAligned(a, len) == a % 4 = 0 /\ len % 4 = 0

\* ReadBufferLen rounding down: without the `+ 3`.
ReadBufferLenRoundedDown(a, len) ==
    IF ReadAligned(a, len) THEN len \div 4 ELSE ((a % 4) + len) \div 4

\* vec![0u32; len / 4]  or  vec![0u32; (start_extra_count + len + 3) / 4]
ReadBufferLen(a, len) ==
    IF ReadAligned(a, len) THEN len \div 4 ELSE ((a % 4) + len + 3) \div 4

\* address  or  address - start_extra_count as u64
ReadAddress(a, len) == IF ReadAligned(a, len) THEN a ELSE a - (a % 4)

\* CopyWords with each word's bytes stored in big-endian order.
CopyWordsBigEndian(d, words) ==
    [i \in 1..Len(d) |->
        IF (i - 1) \div 4 < Min(Len(d) \div 4, Len(words))
        THEN ToLeBytes(words[((i - 1) \div 4) + 1])[4 - ((i - 1) % 4)]
        ELSE d[i]]

\* for (bytes, value) in data.chunks_exact_mut(4).zip(words.iter())
\*     bytes.copy_from_slice(&u32::to_le_bytes(*value))
CopyWords(d, words) ==
    [i \in 1..Len(d) |->
        IF (i - 1) \div 4 < Min(Len(d) \div 4, Len(words))
        THEN ToLeBytes(words[((i - 1) \div 4) + 1])[((i - 1) % 4) + 1]
        ELSE d[i]]

\* read(): entry, with the caller's buffer of n bytes.
CallRead(a, n) ==
    /\ ProbeFrame
    /\ pc = "idle"
    /\ op' = "read"
    /\ arg_address' = a
    /\ arg_data' = [i \in 1..n |-> Fill]
    /\ address' = a
    /\ data' = [i \in 1..n |-> Fill]
    /\ start_extra_count' = (IF ReadAligned(a, n) THEN 0 ELSE a % 4)
    /\ end_extra_count' = 0
    /\ inbetween_count' = 0
    /\ buffer' = [j \in 1..ReadBufferLen(a, n) |-> 0]
    /\ xfers' = <<>>
    /\ pc' = "read_fetch"
    /\ ret' = "none"
    /\ UNCHANGED <<mem, supports8, req_address, req_data, wr_ret, wr_mem0>>

\* The one read_32, of the whole range or of the over-fetched words.
ReadFetch ==
    /\ ProbeFrame
    /\ pc = "read_fetch"
    /\ \E ok \in BOOLEAN :
        /\ xfers' = Append(xfers,
              Xfer("read_32", ReadAddress(address, Len(data)), Len(buffer), ok))
        /\ IF ok
           THEN /\ buffer' = MemRead32(mem, ReadAddress(address, Len(data)),
                                       Len(buffer))
                /\ pc' = "read_copy"
                /\ ret' = ret
           ELSE /\ Finish("Err")
                /\ buffer' = buffer
    /\ UNCHANGED <<mem, supports8, op, arg_address, arg_data, address, data,
                   start_extra_count, end_extra_count, inbetween_count,
                   req_address, req_data, wr_ret, wr_mem0>>

\* The copy into `data`: the words, or the range
\* buffer[start_extra_count..start_extra_count + len] of them.
ReadCopy ==
    /\ ProbeFrame
    /\ pc = "read_copy"
    /\ IF ReadAligned(address, Len(data))
       THEN /\ data' = CopyWords(data, buffer)
            /\ Finish("Ok")
       ELSE IF SliceInRange(Len(buffer), start_extra_count,
                            start_extra_count + Len(data))
            THEN /\ data' = CopyWords(data,
                       Slice(buffer, start_extra_count,
                             start_extra_count + Len(data)))
                 /\ Finish("Ok")
            ELSE /\ Finish("panic")
                 /\ data' = data
    /\ UNCHANGED <<mem, supports8, op, arg_address, arg_data, address,
                   start_extra_count, end_extra_count, inbetween_count, buffer,
                   xfers, req_address, req_data, wr_ret, wr_mem0>>

\* ---------------------------------------------------------- MemoryApT
\* A u64 as four 16-bit limbs, least significant first.
U64(l0, l1, l2, l3) == <<l0, l1, l2, l3>>

\* let address_lower = address as u32;
AddressLower(a) == a[1] + 65536 * a[2]

\* address_upper cut to its low 16 bits.
AddressUpperLow16(a) == a[3]

\* let address_upper = (address >> 32) as u32;
AddressUpper(a) == a[3] + 65536 * a[4]

\* The addresses a caller passes: below and above 2^32.
AddressSet ==
    { U64(l0, l1, l2, l3) :
        l0 \in {0, 4096}, l1 \in {0, 8192}, l2 \in {0, 1}, l3 \in {0, 32767} }

\* The words a caller writes and the DRW register returns.
WordSet == {305419896, 2147483647}

\* Sequences over S of length 0..n.
SeqsUpTo(S, n) == UNION { [1..k -> S] : k \in 0..n }

\* One register access: interface.write_register / interface.read_register.
Access(reg, dir, value, ok) ==
    [reg |-> reg, dir |-> dir, value |-> value, ok |-> ok]

ApFinish(r) == ap_pc' = "idle" /\ ap_ret' = r

\* set_target_address(): entry.
CallSetTargetAddress(a) ==
    /\ ApFrame
    /\ ap_pc = "idle"
    /\ ap_op' = "set_target_address"
    /\ ap_address' = a
    /\ ap_log' = <<>>
    /\ ap_ret' = "none"
    /\ ap_pc' = "target_upper"
    /\ UNCHANGED <<ap_large, values, values0, ap_i>>

\* SetTargetUpper with the result of the TAR2 write dropped.
SetTargetUpperIgnoresError ==
    /\ ApFrame
    /\ ap_pc = "target_upper"
    /\ IF ap_large
       THEN \E ok \in BOOLEAN :
                /\ ap_log' = Append(ap_log,
                      Access("TAR2", "write", AddressUpper(ap_address), ok))
                /\ ap_pc' = "target_lower" /\ ap_ret' = ap_ret
       ELSE IF AddressUpper(ap_address) # 0
            THEN ApFinish("OutOfBounds") /\ ap_log' = ap_log
            ELSE ap_pc' = "target_lower" /\ UNCHANGED <<ap_log, ap_ret>>
    /\ UNCHANGED <<ap_large, ap_op, ap_address, values, values0, ap_i>>

\* The upper half: TAR2 with the large-address extension, else the bounds
\* check.
SetTargetUpper ==
    /\ ApFrame
    /\ ap_pc = "target_upper"
    /\ IF ap_large
       THEN \E ok \in BOOLEAN :
                /\ ap_log' = Append(ap_log,
                      Access("TAR2", "write", AddressUpper(ap_address), ok))
                /\ IF ok
                   THEN ap_pc' = "target_lower" /\ ap_ret' = ap_ret
                   ELSE ApFinish("Err")
       ELSE IF AddressUpper(ap_address) # 0
            THEN ApFinish("OutOfBounds") /\ ap_log' = ap_log
            ELSE ap_pc' = "target_lower" /\ UNCHANGED <<ap_log, ap_ret>>
    /\ UNCHANGED <<ap_large, ap_op, ap_address, values, values0, ap_i>>

\* The lower half: TAR, then Ok(()).
SetTargetLower ==
    /\ ApFrame
    /\ ap_pc = "target_lower"
    /\ \E ok \in BOOLEAN :
        /\ ap_log' = Append(ap_log,
              Access("TAR", "write", AddressLower(ap_address), ok))
        /\ ApFinish(IF ok THEN "Ok" ELSE "Err")
    /\ UNCHANGED <<ap_large, ap_op, ap_address, values, values0, ap_i>>

\* The iterator running from the last word to the first.
NextWordReversed(vs, i) == vs[Len(vs) - i]

\* values.iter(): the word the i-th turn of the loop (from 0) is at.
NextWord(vs, i) == vs[i + 1]

\* read_data() / write_data(): entry.
CallData(o, vs) ==
    /\ ApFrame
    /\ ap_pc = "idle"
    /\ ap_op' = o
    /\ values' = vs
    /\ values0' = vs
    /\ ap_i' = 0
    /\ ap_log' = <<>>
    /\ ap_ret' = "none"
    /\ ap_pc' = o
    /\ UNCHANGED <<ap_large, ap_address>>

\* ReadDataStep with the entry of a failed read overwritten as well.
ReadDataStepClobbers ==
    /\ ApFrame
    /\ ap_pc = "read_data"
    /\ IF ap_i < Len(values)
       THEN \E ok \in BOOLEAN, w \in WordSet :
                /\ ap_log' = Append(ap_log, Access("DRW", "read", w, ok))
                /\ values' = [values EXCEPT ![ap_i + 1] = w]
                /\ IF ok
                   THEN /\ ap_i' = ap_i + 1
                        /\ UNCHANGED <<ap_pc, ap_ret>>
                   ELSE /\ ApFinish("Err")
                        /\ UNCHANGED ap_i
       ELSE /\ ApFinish("Ok")
            /\ UNCHANGED <<values, ap_i, ap_log>>
    /\ UNCHANGED <<ap_large, ap_op, ap_address, values0>>

\* for value in values.iter_mut():
\*     *value = interface.read_register::<DRW, _>(self)?.data
ReadDataStep ==
    /\ ApFrame
    /\ ap_pc = "read_data"
    /\ IF ap_i < Len(values)
       THEN \E ok \in BOOLEAN, w \in WordSet :
                /\ ap_log' = Append(ap_log, Access("DRW", "read", w, ok))
                /\ IF ok
                   THEN /\ values' = [values EXCEPT ![ap_i + 1] = w]
                        /\ ap_i' = ap_i + 1
                        /\ UNCHANGED <<ap_pc, ap_ret>>
                   ELSE /\ ApFinish("Err")
                        /\ UNCHANGED <<values, ap_i>>
       ELSE /\ ApFinish("Ok")
            /\ UNCHANGED <<values, ap_i, ap_log>>
    /\ UNCHANGED <<ap_large, ap_op, ap_address, values0>>

\* for data in values.iter().cloned():
\*     interface.write_register(self, DRW { data })?
WriteDataStep ==
    /\ ApFrame
    /\ ap_pc = "write_data"
    /\ IF ap_i < Len(values)
       THEN \E ok \in BOOLEAN :
                /\ ap_log' = Append(ap_log,
                      Access("DRW", "write", NextWord(values, ap_i), ok))
                /\ IF ok
                   THEN /\ ap_i' = ap_i + 1
                        /\ UNCHANGED <<ap_pc, ap_ret>>
                   ELSE /\ ApFinish("Err")
                        /\ ap_i' = ap_i
       ELSE /\ ApFinish("Ok")
            /\ UNCHANGED <<ap_i, ap_log>>
    /\ UNCHANGED <<ap_large, ap_op, ap_address, values, values0>>

ApIdle ==
    /\ ap_pc = "idle"
    /\ ap_op = "none"
    /\ ap_address = U64(0, 0, 0, 0)
    /\ values = <<>>
    /\ values0 = <<>>
    /\ ap_i = 0
    /\ ap_log = <<>>
    /\ ap_ret = "none"

ApInit == ap_large \in BOOLEAN /\ ApIdle

ApNext ==
    \/ \E a \in AddressSet : CallSetTargetAddress(a)
    \/ SetTargetUpper
    \/ SetTargetLower
    \/ \E n \in 0..MaxWords : CallData("read_data", [k \in 1..n |-> 0])
    \/ ReadDataStep
    \/ \E vs \in SeqsUpTo(WordSet, MaxWords) : CallData("write_data", vs)
    \/ WriteDataStep

\* --------------------------------------------------- valid_access_ports
\* (0..=255): the last AP index the scan looks at.
LastApIndex == 255

\* What debug_port.read_ap_register::<IDR>(port) returns: an IDR with its raw
\* value, or an error (of the transport, or of the register's parse).
IdrReadResults ==
    { [kind |-> "Ok", value |-> v] : v \in {0, 611778597} }
        \cup { [kind |-> e, value |-> 0] : e \in {"Transport", "RegisterParse"} }

\* access_port_is_valid with every IDR that was read taken for a valid AP.
AccessPortIsValidAnyIdr(idr_result) == idr_result.kind = "Ok"

\* access_port_is_valid with a failed IDR read taken for a present AP.
AccessPortIsValidErrIsPresent(idr_result) ==
    idr_result.kind # "Ok" \/ idr_result.value # 0

\* access_port_is_valid: Ok(idr) => u32::from(idr) != 0, Err(_) => false.
AccessPortIsValid(idr_result) ==
    idr_result.kind = "Ok" /\ idr_result.value # 0

\* valid_access_ports(): the iterator chain is built, nothing is read yet.
CallValidAccessPorts ==
    /\ ScanFrame
    /\ scan_pc = "idle"
    /\ scan_pc' = "scan"
    /\ scan_ap' = 0
    /\ scan_found' = <<>>
    /\ scan_log' = <<>>

\* ScanStep as a filter: an index that is not valid is skipped and the scan
\* goes on to the next one.
ScanStepPastGap ==
    /\ ScanFrame
    /\ scan_pc = "scan"
    /\ \E r \in IdrReadResults :
        /\ scan_log' = Append(scan_log, [ap |-> scan_ap, result |-> r])
        /\ scan_found' = IF AccessPortIsValid(r)
                         THEN Append(scan_found, scan_ap) ELSE scan_found
        /\ IF scan_ap = LastApIndex
           THEN scan_pc' = "done" /\ scan_ap' = scan_ap
           ELSE scan_pc' = "scan" /\ scan_ap' = scan_ap + 1

\* One turn of take_while over the next index: one IDR read; a valid AP is
\* collected, anything else ends the scan, as does the end of 0..=255.
ScanStep ==
    /\ ScanFrame
    /\ scan_pc = "scan"
    /\ \E r \in IdrReadResults :
        /\ scan_log' = Append(scan_log, [ap |-> scan_ap, result |-> r])
        /\ IF AccessPortIsValid(r)
           THEN /\ scan_found' = Append(scan_found, scan_ap)
                /\ IF scan_ap = LastApIndex
                   THEN scan_pc' = "done" /\ scan_ap' = scan_ap
                   ELSE scan_pc' = "scan" /\ scan_ap' = scan_ap + 1
           ELSE /\ scan_pc' = "done"
                /\ UNCHANGED <<scan_found, scan_ap>>

ScanIdle ==
    /\ scan_pc = "idle"
    /\ scan_ap = 0
    /\ scan_found = <<>>
    /\ scan_log = <<>>

ScanNext ==
    \/ CallValidAccessPorts
    \/ ScanStep

\* ------------------------------------------------- register codecs
\* A raw u32 register value is held as the set of its bits that are 1, so
\* that all 32 bits are there: | is the union, & the intersection.

\* The bits of a number below 2^31.
BitsOf(n) == { i \in 0..30 : (n \div (2 ^ i)) % 2 = 1 }

\* bits << n on a u32: the bits shifted out at the top are lost.
ShlBits(bits, n) == { i + n : i \in bits } \cap (0..31)

\* u32::from(x) << n
Shl(x, n) == ShlBits(BitsOf(x), n)

\* ((value >> shift) & (2^width - 1)) as a number.
RECURSIVE Field(_, _, _)
Field(value, shift, width) ==
    IF width = 0 THEN 0
    ELSE (IF shift \in value THEN 1 ELSE 0)
             + 2 * Field(value, shift + 1, width - 1)

\* Ok(register)
DecodeOk(v) == [kind |-> "Ok", value |-> v]

\* RegisterParseError::new(name, value)
RegisterParseError(name, value) ==
    [kind |-> "RegisterParse", name |-> name, raw |-> value]

\* ApClass::from_u8: the derived Primitive conversion, "None" for no variant.
ApClassFromU8(n) ==
    CASE n = 0 -> "Undefined"
      [] n = 8 -> "MemAp"
      [] OTHER -> "None"

\* ApClass::to_u32().unwrap()
ApClassToU32(c) ==
    CASE c = "Undefined" -> 0
      [] c = "MemAp" -> 8

\* ApType::from_u8
ApTypeFromU8(n) ==
    CASE n = 0 -> "JtagComAp"
      [] n = 1 -> "AmbaAhb3"
      [] n = 2 -> "AmbaApb2Apb3"
      [] n = 4 -> "AmbaAxi3Axi4"
      [] n = 5 -> "AmbaAhb5"
      [] n = 6 -> "AmbaApb4Apb5"
      [] n = 7 -> "AmbaAxi5"
      [] n = 8 -> "AmbaAhb5Hprot"
      [] OTHER -> "None"

\* ApType::to_u32().unwrap()
ApTypeToU32(t) ==
    CASE t = "JtagComAp" -> 0
      [] t = "AmbaAhb3" -> 1
      [] t = "AmbaApb2Apb3" -> 2
      [] t = "AmbaAxi3Axi4" -> 4
      [] t = "AmbaAhb5" -> 5
      [] t = "AmbaApb4Apb5" -> 6
      [] t = "AmbaAxi5" -> 7
      [] t = "AmbaAhb5Hprot" -> 8

\* AddressIncrement::from_u8
AddressIncrementFromU8(n) ==
    CASE n = 0 -> "Off"
      [] n = 1 -> "Single"
      [] n = 2 -> "Packed"
      [] OTHER -> "None"

\* AddressIncrement as u8
AddressIncrementToU8(a) ==
    CASE a = "Off" -> 0
      [] a = "Single" -> 1
      [] a = "Packed" -> 2

\* DataSize::from_u8
DataSizeFromU8(n) ==
    CASE n = 0 -> "U8"
      [] n = 1 -> "U16"
      [] n = 2 -> "U32"
      [] n = 3 -> "U64"
      [] n = 4 -> "U128"
      [] n = 5 -> "U256"
      [] OTHER -> "None"

\* DataSize::to_u32().unwrap()
DataSizeToU32(d) ==
    CASE d = "U8" -> 0
      [] d = "U16" -> 1
      [] d = "U32" -> 2
      [] d = "U64" -> 3
      [] d = "U128" -> 4
      [] d = "U256" -> 5

\* IdrTryFrom with VARIANT read from bits [11:8].
IdrTryFromVariantAt8(value) ==
    LET designer == Field(value, 17, 11)
        class == ApClassFromU8(Field(value, 13, 4))
        type == ApTypeFromU8(Field(value, 0, 4))
    IN  IF class = "None" \/ type = "None"
        THEN RegisterParseError("IDR", value)
        ELSE DecodeOk([REVISION |-> Field(value, 28, 4),
                       DESIGNER |-> [cc |-> designer \div 128,
                                     id |-> designer % 128],
                       CLASS |-> class,
                       RES0 |-> 0,
                       VARIANT |-> Field(value, 8, 4),
                       TYPE |-> type])

\* IdrTryFrom with an unknown CLASS or TYPE replaced by the enum's default.
IdrTryFromDefaulting(value) ==
    LET designer == Field(value, 17, 11)
        class == ApClassFromU8(Field(value, 13, 4))
        type == ApTypeFromU8(Field(value, 0, 4))
    IN  DecodeOk([REVISION |-> Field(value, 28, 4),
                  DESIGNER |-> [cc |-> designer \div 128,
                                id |-> designer % 128],
                  CLASS |-> IF class = "None" THEN "Undefined" ELSE class,
                  RES0 |-> 0,
                  VARIANT |-> Field(value, 4, 4),
                  TYPE |-> IF type = "None" THEN "JtagComAp" ELSE type])

\* IDR: from (TryFrom<u32>).  RES0 is the field _RES0.
IdrTryFrom(value) ==
    LET designer == Field(value, 17, 11)
        class == ApClassFromU8(Field(value, 13, 4))
        type == ApTypeFromU8(Field(value, 0, 4))
    IN  IF class = "None" \/ type = "None"
        THEN RegisterParseError("IDR", value)
        ELSE DecodeOk([REVISION |-> Field(value, 28, 4),
                       DESIGNER |-> [cc |-> designer \div 128,
                                     id |-> designer % 128],
                       CLASS |-> class,
                       RES0 |-> 0,
                       VARIANT |-> Field(value, 4, 4),
                       TYPE |-> type])

\* IdrInto with VARIANT put at bits [11:8].
IdrIntoVariantAt8(v) ==
    Shl(v.REVISION, 28)
        \cup ShlBits(Shl(v.DESIGNER.cc, 7) \cup BitsOf(v.DESIGNER.id), 17)
        \cup Shl(ApClassToU32(v.CLASS), 13)
        \cup Shl(v.VARIANT, 8)
        \cup BitsOf(ApTypeToU32(v.TYPE))

\* IDR: to (From<IDR> for u32).
IdrInto(v) ==
    Shl(v.REVISION, 28)
        \cup ShlBits(Shl(v.DESIGNER.cc, 7) \cup BitsOf(v.DESIGNER.id), 17)
        \cup Shl(ApClassToU32(v.CLASS), 13)
        \cup Shl(v.VARIANT, 4)
        \cup BitsOf(ApTypeToU32(v.TYPE))

\* BASE: from.
BaseTryFrom(value) ==
    DecodeOk([BASEADDR |-> Field(value \cap (12..31), 12, 20),
              Format |-> IF Field(value, 1, 1) = 0 THEN "Legacy" ELSE "ADIv6",
              present |-> IF Field(value, 0, 1) = 0
                          THEN "NotPresent" ELSE "Present"])

\* BaseInto with Format put at bit 0.
BaseIntoFormatAt0(v) ==
    Shl(v.BASEADDR, 12)
        \cup Shl(IF v.Format = "Legacy" THEN 0 ELSE 1, 0)
        \cup BitsOf(IF v.present = "NotPresent" THEN 0 ELSE 1)

\* BASE: to.
BaseInto(v) ==
    Shl(v.BASEADDR, 12)
        \cup Shl(IF v.Format = "Legacy" THEN 0 ELSE 1, 1)
        \cup BitsOf(IF v.present = "NotPresent" THEN 0 ELSE 1)

\* BASE2: from / to.
Base2TryFrom(value) == DecodeOk([BASEADDR |-> value])

Base2Into(v) == v.BASEADDR

\* CSW: from.
CswTryFrom(value) ==
    LET addr_inc == AddressIncrementFromU8(Field(value, 4, 2))
        size == DataSizeFromU8(Field(value, 0, 3))
    IN  IF addr_inc = "None" \/ size = "None"
        THEN RegisterParseError("CSW", value)
        ELSE DecodeOk([DbgSwEnable |-> Field(value, 31, 1),
                       PROT |-> Field(value, 24, 7),
                       SDeviceEn |-> Field(value, 23, 1),
                       RMEEN |-> Field(value, 21, 2),
                       ERRSTOP |-> Field(value, 17, 1),
                       ERRNPASS |-> Field(value, 16, 1),
                       MTE |-> Field(value, 15, 1),
                       Type |-> Field(value, 12, 3),
                       Mode |-> Field(value, 8, 4),
                       TrinProg |-> Field(value, 7, 1),
                       DeviceEn |-> Field(value, 6, 1),
                       AddrInc |-> addr_inc,
                       SIZE |-> size])

\* CSW: to.
CswInto(v) ==
    Shl(v.DbgSwEnable, 31)
        \cup Shl(v.PROT, 24)
        \cup Shl(v.SDeviceEn, 23)
        \cup Shl(v.RMEEN, 21)
        \cup Shl(v.ERRSTOP, 17)
        \cup Shl(v.ERRNPASS, 16)
        \cup Shl(v.MTE, 15)
        \cup Shl(v.Type, 12)
        \cup Shl(v.Mode, 8)
        \cup Shl(v.TrinProg, 7)
        \cup Shl(v.DeviceEn, 6)
        \cup Shl(AddressIncrementToU8(v.AddrInc), 4)
        \cup BitsOf(DataSizeToU32(v.SIZE))

\* #[derive(Default)] on CSW: every u8 field 0, AddrInc and SIZE their
\* #[default] variants.
CswDefault ==
    [DbgSwEnable |-> 0, PROT |-> 0, SDeviceEn |-> 0, RMEEN |-> 0,
     ERRSTOP |-> 0, ERRNPASS |-> 0, MTE |-> 0, Type |-> 0, Mode |-> 0,
     TrinProg |-> 0, DeviceEn |-> 0, AddrInc |-> "Single", SIZE |-> "U32"]

\* CSW::new(data_size):
\* CSW { DbgSwEnable: 0b1, AddrInc: Single, SIZE: data_size, ..Default::default() }
CswNew(data_size) ==
    [CswDefault EXCEPT !.DbgSwEnable = 1, !.AddrInc = "Single",
                       !.SIZE = data_size]

\* DRW, TAR, TAR2: from / to.
DrwTryFrom(value) == DecodeOk([data |-> value])

DrwInto(v) == v.data

TarTryFrom(value) == DecodeOk([address |-> value])

TarInto(v) == v.address

\* CFG: from.
CfgTryFrom(value) ==
    DecodeOk([TARINC |-> Field(value, 16, 4),
              ERR |-> Field(value, 8, 3),
              DARSIZE |-> Field(value, 4, 4),
              RME |-> Field(value, 3, 1),
              LD |-> Field(value, 2, 1),
              LA |-> Field(value, 1, 1),
              BE |-> Field(value, 0, 1)])

\* CFG: to.
CfgInto(v) ==
    Shl(v.TARINC, 16)
        \cup Shl(v.ERR, 8)
        \cup Shl(v.DARSIZE, 4)
        \cup Shl(v.RME, 3)
        \cup Shl(v.LD, 2)
        \cup Shl(v.LA, 1)
        \cup BitsOf(v.BE)

\* The reserved mask without bit 3: 0x7FFF_FF00.
ApbCswReservedMaskNoBit3 == 8..30

\* The mask 0x7FFF_FF08 of the APB2/APB3 CSW's reserved bits.
ApbCswReservedMask == (8..30) \cup {3}

\* The APB2/APB3 CSW: from.
ApbCswTryFrom(value) ==
    LET addr_inc == AddressIncrementFromU8(Field(value, 4, 2))
        size == DataSizeFromU8(Field(value, 0, 3))
    IN  IF addr_inc = "None" \/ size = "None"
        THEN RegisterParseError("CSW", value)
        ELSE DecodeOk([DbgSwEnable |-> Field(value, 31, 1) # 0,
                       TrInProg |-> Field(value, 7, 1) # 0,
                       DeviceEn |-> Field(value, 6, 1) # 0,
                       AddrInc |-> addr_inc,
                       Size |-> size,
                       reserved_bits |-> value \cap ApbCswReservedMask])

\* u32::from(bool)
BoolToU32(b) == IF b THEN 1 ELSE 0

\* The APB2/APB3 CSW: to.
ApbCswInto(v) ==
    Shl(BoolToU32(v.DbgSwEnable), 31)
        \cup Shl(BoolToU32(v.TrInProg), 7)
        \cup Shl(BoolToU32(v.DeviceEn), 6)
        \cup Shl(AddressIncrementToU8(v.AddrInc), 4)
        \cup BitsOf(DataSizeToU32(v.Size))
        \cup v.reserved_bits

\* define_dp_register!: try_from wraps the raw value, from unwraps it.
DpTryFrom(raw) == DecodeOk(<<raw>>)

DpInto(v) == v[1]

\* The registers, by name; "ApbCSW" is the CSW of amba_apb2_apb3.rs and "DP"
\* a register made by define_dp_register!.
ApRegisters == {"IDR", "BASE", "BASE2", "CSW", "DRW", "TAR", "TAR2", "CFG"}

Registers == ApRegisters \cup {"ApbCSW", "DP"}

\* R::try_from(raw)
TryFromU32(reg, raw) ==
    CASE reg = "IDR" -> IdrTryFrom(raw)
      [] reg = "BASE" -> BaseTryFrom(raw)
      [] reg = "BASE2" -> Base2TryFrom(raw)
      [] reg = "CSW" -> CswTryFrom(raw)
      [] reg = "DRW" -> DrwTryFrom(raw)
      [] reg \in {"TAR", "TAR2"} -> TarTryFrom(raw)
      [] reg = "CFG" -> CfgTryFrom(raw)
      [] reg = "ApbCSW" -> ApbCswTryFrom(raw)
      [] reg = "DP" -> DpTryFrom(raw)

\* u32::from(register)
IntoU32(reg, v) ==
    CASE reg = "IDR" -> IdrInto(v)
      [] reg = "BASE" -> BaseInto(v)
      [] reg = "BASE2" -> Base2Into(v)
      [] reg = "CSW" -> CswInto(v)
      [] reg = "DRW" -> DrwInto(v)
      [] reg \in {"TAR", "TAR2"} -> TarInto(v)
      [] reg = "CFG" -> CfgInto(v)
      [] reg = "ApbCSW" -> ApbCswInto(v)
      [] reg = "DP" -> DpInto(v)

\* ------------------------------------------ typed register access
\* R::ADDRESS
RegisterAddress(reg) ==
    CASE reg = "IDR" -> 3580
      [] reg = "BASE" -> 3576
      [] reg = "BASE2" -> 3568
      [] reg \in {"CSW", "ApbCSW"} -> 3328
      [] reg = "DRW" -> 3340
      [] reg = "TAR" -> 3332
      [] reg = "TAR2" -> 3336
      [] reg = "CFG" -> 3572
      [] reg = "DP" -> 0

\* The access ports the calls are made on.
Ports == {0, 1}

\* The errors a raw register access of the probe fails with.
RawErrors == {"Timeout", "NoAcknowledge"}

\* The 16-bit halves the raw values are made of: each single bit, none, all,
\* and the halves of 0x2477_0025 and of values with an unknown enumerator.
HalfWords == { 2 ^ k : k \in 0..15 } \cup {0, 65535, 37, 9335, 48, 6, 18, 3}

\* The raw values a register holds on the target: every low half over three
\* high halves, and every high half over a low half of zero.
RawValues ==
    { BitsOf(lo) \cup Shl(hi, 16) : lo \in HalfWords, hi \in {0, 9335, 65535} }
        \cup { Shl(hi, 16) : hi \in HalfWords }

\* 0x2477_0025
Raw24770025 == BitsOf(611778597)

\* No result yet / Ok(()) / Err(e) of the probe.
NoResult == [kind |-> "None"]

UnitResult == [kind |-> "Unit"]

RawError(e) == [kind |-> "Err", error |-> e]

\* One raw AP register access and its result: "Ok" or the probe's error.
RawAccess(dir, port, reg_address, value, result) ==
    [dir |-> dir, port |-> port, address |-> reg_address, value |-> value,
     result |-> result]

\* read_ap_register with a failed raw read tried once more.
ReadApRegisterRetrying(port) ==
    /\ RegFrame
    /\ rg_reg \in ApRegisters \cup {"ApbCSW"}
    /\ rg_op' = "read"
    /\ rg_port' = port
    /\ rg_prev' = rg_value
    /\ \E r \in {"Ok"} \cup RawErrors :
        /\ rg_log' = IF r = "Ok"
                     THEN << RawAccess("read", port, RegisterAddress(rg_reg),
                                       rg_raw, "Ok") >>
                     ELSE << RawAccess("read", port, RegisterAddress(rg_reg),
                                       {}, r),
                             RawAccess("read", port, RegisterAddress(rg_reg),
                                       rg_raw, "Ok") >>
        /\ rg_ret' = TryFromU32(rg_reg, rg_raw)
        /\ rg_value' = IF TryFromU32(rg_reg, rg_raw).kind = "Ok"
                       THEN TryFromU32(rg_reg, rg_raw) ELSE rg_value
    /\ UNCHANGED <<rg_reg, rg_raw, rg_raw0>>

\* read_ap_register::<PORT, R>(port): one raw read at R::ADDRESS, then
\* raw_value.try_into().
ReadApRegister(port) ==
    /\ RegFrame
    /\ rg_reg \in ApRegisters \cup {"ApbCSW"}
    /\ rg_op' = "read"
    /\ rg_port' = port
    /\ rg_prev' = rg_value
    /\ \E r \in {"Ok"} \cup RawErrors :
        IF r = "Ok"
        THEN /\ rg_log' = << RawAccess("read", port, RegisterAddress(rg_reg),
                                       rg_raw, "Ok") >>
             /\ rg_ret' = TryFromU32(rg_reg, rg_raw)
             /\ rg_value' = IF TryFromU32(rg_reg, rg_raw).kind = "Ok"
                            THEN TryFromU32(rg_reg, rg_raw) ELSE rg_value
        ELSE /\ rg_log' = << RawAccess("read", port, RegisterAddress(rg_reg),
                                       {}, r) >>
             /\ rg_ret' = RawError(r)
             /\ rg_value' = rg_value
    /\ UNCHANGED <<rg_reg, rg_raw, rg_raw0>>

\* write_ap_register(port, register): one raw write of register.into() at
\* R::ADDRESS.  The register written is one a read has returned; the target
\* then holds what was written.
WriteApRegister(port) ==
    /\ RegFrame
    /\ rg_reg \in ApRegisters \cup {"ApbCSW"}
    /\ rg_value.kind = "Ok"
    /\ rg_op' = "write"
    /\ rg_port' = port
    /\ \E r \in {"Ok"} \cup RawErrors :
        /\ rg_log' = << RawAccess("write", port, RegisterAddress(rg_reg),
                                  IntoU32(rg_reg, rg_value.value), r) >>
        /\ rg_ret' = IF r = "Ok" THEN UnitResult ELSE RawError(r)
        /\ rg_raw' = IF r = "Ok" THEN IntoU32(rg_reg, rg_value.value)
                     ELSE rg_raw
    /\ UNCHANGED <<rg_reg, rg_raw0, rg_value, rg_prev>>

\* A debug port register: Type::try_from(raw).
DpRegisterTryFrom ==
    /\ RegFrame
    /\ rg_reg = "DP"
    /\ rg_op' = "try_from"
    /\ rg_prev' = rg_value
    /\ rg_ret' = TryFromU32(rg_reg, rg_raw)
    /\ rg_value' = TryFromU32(rg_reg, rg_raw)
    /\ UNCHANGED <<rg_reg, rg_raw, rg_raw0, rg_port, rg_log>>

\* A debug port register: u32::from(register).
DpRegisterInto ==
    /\ RegFrame
    /\ rg_reg = "DP"
    /\ rg_value.kind = "Ok"
    /\ rg_op' = "into"
    /\ rg_ret' = UnitResult
    /\ rg_raw' = IntoU32(rg_reg, rg_value.value)
    /\ UNCHANGED <<rg_reg, rg_raw0, rg_value, rg_prev, rg_port, rg_log>>

\* The arguments of CSW::new: the sizes encoded 0b000, 0b010 and 0b101.
CswNewSizes == {"U8", "U32", "U256"}

\* let csw = CSW::new(data_size): a value built before any access, which a
\* later write_ap_register sends.
CswNewValue(data_size) ==
    /\ RegFrame
    /\ rg_reg = "CSW"
    /\ rg_op = "none"
    /\ rg_op' = "new"
    /\ rg_prev' = rg_value
    /\ rg_value' = DecodeOk(CswNew(data_size))
    /\ rg_ret' = DecodeOk(CswNew(data_size))
    /\ rg_log' = <<>>
    /\ UNCHANGED <<rg_reg, rg_raw, rg_raw0, rg_port>>

RegIdle ==
    /\ rg_op = "none"
    /\ rg_port = 0
    /\ rg_log = <<>>
    /\ rg_ret = NoResult
    /\ rg_value = NoResult
    /\ rg_prev = NoResult

\* A register that is not used.
RegUnused == rg_reg = "IDR" /\ rg_raw = {} /\ rg_raw0 = {} /\ RegIdle

RegInit ==
    /\ rg_reg \in Registers
    /\ rg_raw \in RawValues
    /\ rg_raw0 = rg_raw
    /\ RegIdle

RegNext ==
    \/ \E port \in Ports : ReadApRegister(port)
    \/ \E port \in Ports : WriteApRegister(port)
    \/ DpRegisterTryFrom
    \/ DpRegisterInto
    \/ \E d \in CswNewSizes : CswNewValue(d)

\* ------------------------------------------------------- AmbaApb2Apb3
\* The raw CSW values of the target: AddrInc and Size known or not, the
\* DbgSwEnable, TrInProg and DeviceEn bits, and reserved bits.
ApbCswRaws ==
    { BitsOf(lo) \cup hi : lo \in {2, 18, 34, 50, 7, 82, 154, 16},
                           hi \in {{}, {31}, {20, 31}} }

\* The raw CFG values of the target: LA and LD in every combination, alone
\* and with every other bit set.
ApbCfgRaws == { {}, {1}, {2}, {1, 2}, (0..31) \ {1}, (0..31) \ {2}, 0..31 }

\* The arguments of try_set_datasize and try_set_datasize_and_incr.
DataSizes == {"U8", "U32", "U64"}

AddressIncrements == {"Off", "Single", "Packed"}

\* DataSize::to_byte_count
ToByteCount(d) ==
    CASE d = "U8" -> 1
      [] d = "U16" -> 2
      [] d = "U32" -> 4
      [] d = "U64" -> 8
      [] d = "U128" -> 16
      [] d = "U256" -> 32

\* ArmError::UnsupportedTransferWidth(bits)
UnsupportedTransferWidth(bits) ==
    [kind |-> "UnsupportedTransferWidth", bits |-> bits]

\* ArmError::UnsupportedAddressIncrement(increment)
UnsupportedAddressIncrement(incr) ==
    [kind |-> "UnsupportedAddressIncrement", increment |-> incr]

\* One register access of an AmbaApb2Apb3 method and its result.
ApbAccess(reg, dir, value, result) ==
    [reg |-> reg, dir |-> dir, value |-> value, result |-> result]

\* has_large_address_extension with the LD bit taken for the LA bit.
HasLargeAddressExtensionFromLd(me) == me.cfg.LD = 1

\* has_large_address_extension(): self.cfg.LA
HasLargeAddressExtension(me) == me.cfg.LA = 1

\* has_large_data_extension(): self.cfg.LD
HasLargeDataExtension(me) == me.cfg.LD = 1

\* A method of the AP ends.
ApbFinish(r) == apb_pc' = "idle" /\ apb_ret' = r

\* AmbaApb2Apb3::new(probe, address): entry.
CallApbNew ==
    /\ ApbFrame
    /\ apb_pc = "idle"
    /\ apb_pc' = "new_read_csw"
    /\ apb_op' = "new"
    /\ apb_me0' = apb_me
    /\ apb_me' = NoResult
    /\ apb_log' = <<>>
    /\ apb_ret' = NoResult
    /\ apb_raw_csw' = {}
    /\ apb_raw_cfg' = {}
    /\ UNCHANGED <<apb_hw_csw, apb_hw_cfg, apb_arg>>

\* let csw = probe.read_raw_ap_register(&address, CSW::ADDRESS)?;
ApbNewReadCsw ==
    /\ ApbFrame
    /\ apb_pc = "new_read_csw"
    /\ \E r \in {"Ok"} \cup RawErrors :
        IF r = "Ok"
        THEN /\ apb_log' = Append(apb_log,
                               ApbAccess("CSW", "read", apb_hw_csw, r))
             /\ apb_raw_csw' = apb_hw_csw
             /\ apb_pc' = "new_read_cfg"
             /\ apb_ret' = apb_ret
        ELSE /\ apb_log' = Append(apb_log, ApbAccess("CSW", "read", {}, r))
             /\ apb_raw_csw' = apb_raw_csw
             /\ ApbFinish(RawError(r))
    /\ UNCHANGED <<apb_hw_csw, apb_hw_cfg, apb_op, apb_me, apb_me0,
                   apb_raw_cfg, apb_arg>>

\* let cfg = probe.read_raw_ap_register(&address, CFG::ADDRESS)?;
ApbNewReadCfg ==
    /\ ApbFrame
    /\ apb_pc = "new_read_cfg"
    /\ \E r \in {"Ok"} \cup RawErrors :
        IF r = "Ok"
        THEN /\ apb_log' = Append(apb_log,
                               ApbAccess("CFG", "read", apb_hw_cfg, r))
             /\ apb_raw_cfg' = apb_hw_cfg
             /\ apb_pc' = "new_write"
             /\ apb_ret' = apb_ret
        ELSE /\ apb_log' = Append(apb_log, ApbAccess("CFG", "read", {}, r))
             /\ apb_raw_cfg' = apb_raw_cfg
             /\ ApbFinish(RawError(r))
    /\ UNCHANGED <<apb_hw_csw, apb_hw_cfg, apb_op, apb_me, apb_me0,
                   apb_raw_csw, apb_arg>>

\* ApbNewCsw with the AddrInc that was read left as it is.
ApbNewCswKeepsAddrInc(csw) == [csw EXCEPT !.DbgSwEnable = TRUE]

\* The CSW new() writes and caches:
\* CSW { DbgSwEnable: true, AddrInc: AddressIncrement::Single, ..me.csw }
ApbNewCsw(csw) == [csw EXCEPT !.DbgSwEnable = TRUE, !.AddrInc = "Single"]

\* ApbNewWrite with the write left out when the CSW read is the one wanted.
ApbNewWriteIfChanged ==
    /\ ApbFrame
    /\ apb_pc = "new_write"
    /\ LET csw_read == ApbCswTryFrom(apb_raw_csw)
           cfg_read == CfgTryFrom(apb_raw_cfg)
       IN  IF csw_read.kind # "Ok"
           THEN /\ ApbFinish(csw_read)
                /\ UNCHANGED <<apb_log, apb_me, apb_hw_csw>>
           ELSE IF ApbNewCsw(csw_read.value) = csw_read.value
           THEN /\ ApbFinish(UnitResult)
                /\ apb_me' = [csw |-> csw_read.value, cfg |-> cfg_read.value]
                /\ UNCHANGED <<apb_log, apb_hw_csw>>
           ELSE \E r \in {"Ok"} \cup RawErrors :
                /\ apb_log' = Append(apb_log,
                       ApbAccess("CSW", "write",
                                 ApbCswInto(ApbNewCsw(csw_read.value)), r))
                /\ IF r = "Ok"
                   THEN /\ apb_hw_csw' = ApbCswInto(ApbNewCsw(csw_read.value))
                        /\ apb_me' = [csw |-> ApbNewCsw(csw_read.value),
                                      cfg |-> cfg_read.value]
                        /\ ApbFinish(UnitResult)
                   ELSE /\ ApbFinish(RawError(r))
                        /\ UNCHANGED <<apb_me, apb_hw_csw>>
    /\ UNCHANGED <<apb_hw_cfg, apb_op, apb_me0, apb_raw_csw, apb_raw_cfg,
                   apb_arg>>

\* let (csw, cfg) = (csw.try_into()?, cfg.try_into()?);
\* probe.write_ap_register(&me, csw)?;  Ok(Self { csw, ..me })
ApbNewWrite ==
    /\ ApbFrame
    /\ apb_pc = "new_write"
    /\ LET csw_read == ApbCswTryFrom(apb_raw_csw)
           cfg_read == CfgTryFrom(apb_raw_cfg)
       IN  IF csw_read.kind # "Ok"
           THEN /\ ApbFinish(csw_read)
                /\ UNCHANGED <<apb_log, apb_me, apb_hw_csw>>
           ELSE \E r \in {"Ok"} \cup RawErrors :
                /\ apb_log' = Append(apb_log,
                       ApbAccess("CSW", "write",
                                 ApbCswInto(ApbNewCsw(csw_read.value)), r))
                /\ IF r = "Ok"
                   THEN /\ apb_hw_csw' = ApbCswInto(ApbNewCsw(csw_read.value))
                        /\ apb_me' = [csw |-> ApbNewCsw(csw_read.value),
                                      cfg |-> cfg_read.value]
                        /\ ApbFinish(UnitResult)
                   ELSE /\ ApbFinish(RawError(r))
                        /\ UNCHANGED <<apb_me, apb_hw_csw>>
    /\ UNCHANGED <<apb_hw_cfg, apb_op, apb_me0, apb_raw_csw, apb_raw_cfg,
                   apb_arg>>

\* status(): self.csw = probe.read_ap_register(self)?; Ok(self.csw)
ApbStatus ==
    /\ ApbFrame
    /\ apb_pc = "idle"
    /\ apb_me # NoResult
    /\ apb_op' = "status"
    /\ apb_me0' = apb_me
    /\ apb_arg' = <<>>
    /\ \E r \in {"Ok"} \cup RawErrors :
        IF r = "Ok"
        THEN /\ apb_log' = << ApbAccess("CSW", "read", apb_hw_csw, r) >>
             /\ apb_ret' = ApbCswTryFrom(apb_hw_csw)
             /\ apb_me' = IF ApbCswTryFrom(apb_hw_csw).kind = "Ok"
                          THEN [apb_me EXCEPT
                                  !.csw = ApbCswTryFrom(apb_hw_csw).value]
                          ELSE apb_me
        ELSE /\ apb_log' = << ApbAccess("CSW", "read", {}, r) >>
             /\ apb_ret' = RawError(r)
             /\ apb_me' = apb_me
    /\ UNCHANGED <<apb_hw_csw, apb_hw_cfg, apb_pc, apb_raw_csw, apb_raw_cfg>>

\* try_set_datasize with the width reported in bytes.
ApbTrySetDatasizeInBytes(data_size) ==
    /\ ApbFrame
    /\ apb_pc = "idle"
    /\ apb_me # NoResult
    /\ apb_op' = "try_set_datasize"
    /\ apb_me0' = apb_me
    /\ apb_arg' = <<data_size>>
    /\ apb_log' = <<>>
    /\ apb_ret' = IF data_size = "U32" THEN UnitResult
                  ELSE UnsupportedTransferWidth(ToByteCount(data_size))
    /\ UNCHANGED <<apb_hw_csw, apb_hw_cfg, apb_pc, apb_me, apb_raw_csw,
                   apb_raw_cfg>>

\* try_set_datasize(_probe, data_size)
ApbTrySetDatasize(data_size) ==
    /\ ApbFrame
    /\ apb_pc = "idle"
    /\ apb_me # NoResult
    /\ apb_op' = "try_set_datasize"
    /\ apb_me0' = apb_me
    /\ apb_arg' = <<data_size>>
    /\ apb_log' = <<>>
    /\ apb_ret' = IF data_size = "U32" THEN UnitResult
                  ELSE UnsupportedTransferWidth(ToByteCount(data_size) * 8)
    /\ UNCHANGED <<apb_hw_csw, apb_hw_cfg, apb_pc, apb_me, apb_raw_csw,
                   apb_raw_cfg>>

\* super::registers::CSW::from(csw): the AP's CSW as the generic CSW, by way
\* of its raw value; what write_register then sends is the generic CSW's raw
\* value.
GenericCswRaw(csw) == CswInto(CswTryFrom(ApbCswInto(csw)).value)

\* try_set_datasize_and_incr with the cache updated before the write, so that
\* a failed write leaves the new AddrInc in the cache.
ApbTrySetDatasizeAndIncrCachesFirst(data_size, increment) ==
    /\ ApbFrame
    /\ apb_pc = "idle"
    /\ apb_me # NoResult
    /\ apb_op' = "try_set_datasize_and_incr"
    /\ apb_me0' = apb_me
    /\ apb_arg' = <<data_size, increment>>
    /\ IF data_size = "U32" /\ increment = "Packed"
       THEN /\ apb_ret' = UnsupportedAddressIncrement("Packed")
            /\ apb_log' = <<>>
            /\ UNCHANGED <<apb_me, apb_hw_csw>>
       ELSE IF data_size = "U32" /\ increment = apb_me.csw.AddrInc
       THEN /\ apb_ret' = UnitResult
            /\ apb_log' = <<>>
            /\ UNCHANGED <<apb_me, apb_hw_csw>>
       ELSE IF data_size = "U32"
       THEN LET csw == [apb_me.csw EXCEPT !.AddrInc = increment]
            IN  \E r \in {"Ok"} \cup RawErrors :
                  /\ apb_log' = << ApbAccess("CSW", "write",
                                             GenericCswRaw(csw), r) >>
                  /\ apb_me' = [apb_me EXCEPT !.csw = csw]
                  /\ IF r = "Ok"
                     THEN /\ apb_hw_csw' = GenericCswRaw(csw)
                          /\ apb_ret' = UnitResult
                     ELSE /\ apb_ret' = RawError(r)
                          /\ UNCHANGED apb_hw_csw
       ELSE /\ apb_ret' = UnsupportedTransferWidth(ToByteCount(data_size) * 8)
            /\ apb_log' = <<>>
            /\ UNCHANGED <<apb_me, apb_hw_csw>>
    /\ UNCHANGED <<apb_hw_cfg, apb_pc, apb_raw_csw, apb_raw_cfg>>

\* try_set_datasize_and_incr(interface, data_size, increment)
ApbTrySetDatasizeAndIncr(data_size, increment) ==
    /\ ApbFrame
    /\ apb_pc = "idle"
    /\ apb_me # NoResult
    /\ apb_op' = "try_set_datasize_and_incr"
    /\ apb_me0' = apb_me
    /\ apb_arg' = <<data_size, increment>>
    /\ IF data_size = "U32" /\ increment = "Packed"
       THEN /\ apb_ret' = UnsupportedAddressIncrement("Packed")
            /\ apb_log' = <<>>
            /\ UNCHANGED <<apb_me, apb_hw_csw>>
       ELSE IF data_size = "U32" /\ increment = apb_me.csw.AddrInc
       THEN /\ apb_ret' = UnitResult
            /\ apb_log' = <<>>
            /\ UNCHANGED <<apb_me, apb_hw_csw>>
       ELSE IF data_size = "U32"
       THEN LET csw == [apb_me.csw EXCEPT !.AddrInc = increment]
            IN  \E r \in {"Ok"} \cup RawErrors :
                  /\ apb_log' = << ApbAccess("CSW", "write",
                                             GenericCswRaw(csw), r) >>
                  /\ IF r = "Ok"
                     THEN /\ apb_hw_csw' = GenericCswRaw(csw)
                          /\ apb_me' = [apb_me EXCEPT !.csw = csw]
                          /\ apb_ret' = UnitResult
                     ELSE /\ apb_ret' = RawError(r)
                          /\ UNCHANGED <<apb_me, apb_hw_csw>>
       ELSE /\ apb_ret' = UnsupportedTransferWidth(ToByteCount(data_size) * 8)
            /\ apb_log' = <<>>
            /\ UNCHANGED <<apb_me, apb_hw_csw>>
    /\ UNCHANGED <<apb_hw_cfg, apb_pc, apb_raw_csw, apb_raw_cfg>>

ApbIdle ==
    /\ apb_pc = "idle"
    /\ apb_op = "none"
    /\ apb_me = NoResult
    /\ apb_me0 = NoResult
    /\ apb_raw_csw = {}
    /\ apb_raw_cfg = {}
    /\ apb_arg = <<>>
    /\ apb_log = <<>>
    /\ apb_ret = NoResult

\* An AP that is not used.
ApbUnused == apb_hw_csw = {} /\ apb_hw_cfg = {} /\ ApbIdle

ApbInit ==
    /\ apb_hw_csw \in ApbCswRaws
    /\ apb_hw_cfg \in ApbCfgRaws
    /\ ApbIdle

ApbNext ==
    \/ CallApbNew
    \/ ApbNewReadCsw
    \/ ApbNewReadCfg
    \/ ApbNewWrite
    \/ ApbStatus
    \/ \E d \in DataSizes : ApbTrySetDatasize(d)
    \/ \E d \in DataSizes, i \in AddressIncrements :
          ApbTrySetDatasizeAndIncr(d, i)

\* The raw CSW values a target changes to on its own: DeviceEn set with
\* Size U32, and a Size that DataSize does not know.
ApbChangedCswRaws == { BitsOf(66) \cup {31}, BitsOf(7) }

\* The target's side of CSW: TrInProg and DeviceEn are read only and driven by
\* the AP, and nothing in AmbaApb2Apb3 owns the register, so between two calls
\* the register can come to hold another value, decodable or not.
ApbTargetChange ==
    /\ ApbFrame
    /\ apb_pc = "idle"
    /\ apb_me # NoResult
    /\ apb_hw_csw \notin ApbChangedCswRaws
    /\ apb_hw_csw' \in ApbChangedCswRaws
    /\ UNCHANGED <<apb_hw_cfg, apb_pc, apb_op, apb_me, apb_me0, apb_raw_csw,
                   apb_raw_cfg, apb_arg, apb_log, apb_ret>>

\* The AP's methods on a target whose CSW changes on its own.
ApbVolatileNext ==
    \/ CallApbNew
    \/ ApbNewReadCsw
    \/ ApbNewReadCfg
    \/ ApbNewWrite
    \/ ApbStatus
    \/ \E d \in DataSizes : ApbTrySetDatasize(d)
    \/ \E d \in DataSizes, i \in AddressIncrements :
          ApbTrySetDatasizeAndIncr(d, i)
    \/ ApbTargetChange

\* ------------------------------------------- the nRF recover sequence
\* Longest erase, in non-zero status reads.
MaxBusy == 3
\* Status reads of one control AP after which a run is no longer followed.
MaxPolls == 5

\* examples/nrf53_recover.rs: the four APs of the nRF5340.
APP_MEM == 0
NET_MEM == 1
APP_CTRL == 2
NET_CTRL == 3

\* The control AP's registers, and the IDR.
ERASEALL == 4
ERASEALLSTATUS == 8
IDR == 252

\* An erase that never completes.
Stuck == 0 - 1

\* for &ap in &[APP_MEM, NET_MEM, APP_CTRL, NET_CTRL]
IdrAps == <<APP_MEM, NET_MEM, APP_CTRL, NET_CTRL>>

\* The control APs with the network core's first.
CtrlApsNetFirst == <<NET_CTRL, APP_CTRL>>

\* for &ap in &[APP_CTRL, NET_CTRL]
CtrlAps == <<APP_CTRL, NET_CTRL>>

\* Nrf5340::core_aps: (core_ahb_ap, core_ctrl_ap)
Nrf5340CoreAps == { <<0, 2>>, <<1, 3>> }

\* Nrf9160::core_aps
Nrf9160CoreAps == { <<0, 4>> }

\* The raw CSW of a core's AHB AP: DeviceEn clear, DeviceEn set among other
\* fields, and DeviceEn set in a value that has no Size.
LockCswRaws == { BitsOf(2), BitsOf(82) \cup {31}, BitsOf(71) }

\* One raw AP register access of the sequence and its result.
RcAccess(ap, reg, dir, value, result) ==
    [ap |-> ap, reg |-> reg, dir |-> dir, value |-> value, result |-> result]

\* Result<bool, ArmError>: Ok(b)
OkBool(b) == [kind |-> "Ok", value |-> b]

\* Nrf5340::is_core_unlocked with the TrInProg bit taken for DeviceEn.
Nrf5340IsCoreUnlockedByTrInProg(ahb_ap_address, ctrl_ap_address) ==
    /\ RecFrame
    /\ rc_pc = "idle"
    /\ rc_qop' = <<"Nrf5340", ahb_ap_address, ctrl_ap_address>>
    /\ \E r \in {"Ok"} \cup RawErrors :
         LET csw == CswTryFrom(rc_hw_csw)
         IN  IF r # "Ok"
             THEN /\ rc_qlog' = << RcAccess(ahb_ap_address, 0, "read", {}, r) >>
                  /\ rc_qret' = RawError(r)
                  /\ rc_reports' = rc_reports
             ELSE /\ rc_qlog' = << RcAccess(ahb_ap_address, 0, "read",
                                            rc_hw_csw, r) >>
                  /\ rc_qret' = IF csw.kind = "Ok"
                                THEN OkBool(csw.value.TrinProg # 0)
                                ELSE csw
                  /\ rc_reports' =
                        IF csw.kind = "Ok" /\ csw.value.TrinProg = 0
                        THEN rc_reports \cup {ctrl_ap_address}
                        ELSE rc_reports
    /\ UNCHANGED <<rc_hw_csw, rc_hw_approtect, rc_erase_time, rc_busy, rc_pc,
                   rc_i, rc_polls, rc_log, rc_ret>>

\* Nrf5340::is_core_unlocked(arm_interface, ahb_ap_address, _ctrl_ap_address):
\* let csw: CSW = read_raw_ap_register(ahb_ap_address, 0x00)?.try_into()?;
\* Ok(csw.DeviceEn != 0)
Nrf5340IsCoreUnlocked(ahb_ap_address, ctrl_ap_address) ==
    /\ RecFrame
    /\ rc_pc = "idle"
    /\ rc_qop' = <<"Nrf5340", ahb_ap_address, ctrl_ap_address>>
    /\ \E r \in {"Ok"} \cup RawErrors :
         LET csw == CswTryFrom(rc_hw_csw)
         IN  IF r # "Ok"
             THEN /\ rc_qlog' = << RcAccess(ahb_ap_address, 0, "read", {}, r) >>
                  /\ rc_qret' = RawError(r)
                  /\ rc_reports' = rc_reports
             ELSE /\ rc_qlog' = << RcAccess(ahb_ap_address, 0, "read",
                                            rc_hw_csw, r) >>
                  /\ rc_qret' = IF csw.kind = "Ok"
                                THEN OkBool(csw.value.DeviceEn # 0)
                                ELSE csw
                  /\ rc_reports' =
                        IF csw.kind = "Ok" /\ csw.value.DeviceEn = 0
                        THEN rc_reports \cup {ctrl_ap_address}
                        ELSE rc_reports
    /\ UNCHANGED <<rc_hw_csw, rc_hw_approtect, rc_erase_time, rc_busy, rc_pc,
                   rc_i, rc_polls, rc_log, rc_ret>>

\* Nrf9160::is_core_unlocked(arm_interface, _ahb_ap_address, ctrl_ap_address):
\* let approtect_status = read_raw_ap_register(ctrl_ap_address, 0x00C)?;
\* Ok(approtect_status != 0)
Nrf9160IsCoreUnlocked(ahb_ap_address, ctrl_ap_address) ==
    /\ RecFrame
    /\ rc_pc = "idle"
    /\ rc_qop' = <<"Nrf9160", ahb_ap_address, ctrl_ap_address>>
    /\ \E r \in {"Ok"} \cup RawErrors :
         IF r # "Ok"
         THEN /\ rc_qlog' = << RcAccess(ctrl_ap_address, 12, "read", {}, r) >>
              /\ rc_qret' = RawError(r)
              /\ rc_reports' = rc_reports
         ELSE /\ rc_qlog' = << RcAccess(ctrl_ap_address, 12, "read",
                                        rc_hw_approtect, r) >>
              /\ rc_qret' = OkBool(rc_hw_approtect # {})
              /\ rc_reports' = IF rc_hw_approtect = {}
                               THEN rc_reports \cup {ctrl_ap_address}
                               ELSE rc_reports
    /\ UNCHANGED <<rc_hw_csw, rc_hw_approtect, rc_erase_time, rc_busy, rc_pc,
                   rc_i, rc_polls, rc_log, rc_ret>>

\* main ends.
RcFinish(pc_, r) == rc_pc' = pc_ /\ rc_ret' = r

\* main(), once the interface is initialized.
CallMain ==
    /\ RecFrame
    /\ rc_pc = "idle"
    /\ rc_pc' = "idr"
    /\ rc_i' = 1
    /\ UNCHANGED <<rc_hw_csw, rc_hw_approtect, rc_erase_time, rc_busy,
                   rc_polls, rc_log, rc_ret, rc_qop, rc_qlog, rc_qret,
                   rc_reports>>

\* println!("IDR {:?} {:x}", ap, iface.read_raw_ap_register(ap, IDR)?);
MainReadIdr ==
    /\ RecFrame
    /\ rc_pc = "idr"
    /\ \E r \in {"Ok"} \cup RawErrors :
         IF r = "Ok"
         THEN /\ rc_log' = Append(rc_log, RcAccess(IdrAps[rc_i], IDR, "read",
                                                   Raw24770025, r))
              /\ IF rc_i < Len(IdrAps)
                 THEN rc_i' = rc_i + 1 /\ rc_pc' = rc_pc
                 ELSE rc_i' = 1 /\ rc_pc' = "erase"
              /\ rc_ret' = rc_ret
         ELSE /\ rc_log' = Append(rc_log,
                                  RcAccess(IdrAps[rc_i], IDR, "read", {}, r))
              /\ rc_i' = rc_i
              /\ RcFinish("failed", RawError(r))
    /\ UNCHANGED <<rc_hw_csw, rc_hw_approtect, rc_erase_time, rc_busy,
                   rc_polls, rc_qop, rc_qlog, rc_qret, rc_reports>>

\* MainStartErase going on to the next control AP when the write fails.
MainStartEraseIgnoresError ==
    /\ RecFrame
    /\ rc_pc = "erase"
    /\ \E r \in {"Ok"} \cup RawErrors :
         /\ rc_log' = Append(rc_log, RcAccess(CtrlAps[rc_i], ERASEALL, "write",
                                              BitsOf(1), r))
         /\ IF r = "Ok"
            THEN /\ rc_busy' = [rc_busy EXCEPT
                                  ![CtrlAps[rc_i]] = rc_erase_time[CtrlAps[rc_i]]]
                 /\ rc_pc' = "poll"
                 /\ rc_i' = rc_i
                 /\ rc_ret' = rc_ret
            ELSE /\ rc_busy' = rc_busy
                 /\ IF rc_i < Len(CtrlAps)
                    THEN rc_i' = rc_i + 1 /\ rc_pc' = rc_pc /\ rc_ret' = rc_ret
                    ELSE rc_i' = rc_i /\ RcFinish("failed", RawError(r))
    /\ rc_polls' = 0
    /\ UNCHANGED <<rc_hw_csw, rc_hw_approtect, rc_erase_time, rc_qop, rc_qlog,
                   rc_qret, rc_reports>>

\* iface.write_raw_ap_register(ap, ERASEALL, 1)?;
MainStartErase ==
    /\ RecFrame
    /\ rc_pc = "erase"
    /\ \E r \in {"Ok"} \cup RawErrors :
         /\ rc_log' = Append(rc_log, RcAccess(CtrlAps[rc_i], ERASEALL, "write",
                                              BitsOf(1), r))
         /\ IF r = "Ok"
            THEN /\ rc_busy' = [rc_busy EXCEPT
                                  ![CtrlAps[rc_i]] = rc_erase_time[CtrlAps[rc_i]]]
                 /\ rc_pc' = "poll"
                 /\ rc_ret' = rc_ret
            ELSE /\ rc_busy' = rc_busy
                 /\ RcFinish("failed", RawError(r))
    /\ rc_polls' = 0
    /\ UNCHANGED <<rc_hw_csw, rc_hw_approtect, rc_erase_time, rc_i, rc_qop,
                   rc_qlog, rc_qret, rc_reports>>

\* What ERASEALLSTATUS of a control AP reads now.
EraseAllStatus(ap) == IF rc_busy[ap] = 0 THEN {} ELSE BitsOf(1)

\* The control AP after one status read.
BusyAfterRead(ap) ==
    IF rc_busy[ap] > 0 THEN [rc_busy EXCEPT ![ap] = rc_busy[ap] - 1]
    ELSE rc_busy

\* MainPoll writing ERASEALL again when the status read is not zero.
MainPollRetriggers ==
    /\ RecFrame
    /\ rc_pc = "poll"
    /\ rc_polls < MaxPolls
    /\ rc_polls' = rc_polls + 1
    /\ \E r \in {"Ok"} \cup RawErrors :
         LET ap == CtrlAps[rc_i]
         IN  IF r = "Ok"
             THEN /\ rc_log' = Append(rc_log,
                       RcAccess(ap, ERASEALLSTATUS, "read",
                                EraseAllStatus(ap), r))
                  /\ rc_busy' = BusyAfterRead(ap)
                  /\ IF EraseAllStatus(ap) # {}
                     THEN rc_pc' = "erase" /\ rc_i' = rc_i /\ rc_ret' = rc_ret
                     ELSE IF rc_i < Len(CtrlAps)
                     THEN rc_pc' = "erase" /\ rc_i' = rc_i + 1
                          /\ rc_ret' = rc_ret
                     ELSE rc_i' = rc_i /\ RcFinish("done", UnitResult)
             ELSE /\ rc_log' = Append(rc_log,
                       RcAccess(ap, ERASEALLSTATUS, "read", {}, r))
                  /\ rc_busy' = rc_busy
                  /\ rc_i' = rc_i
                  /\ RcFinish("failed", RawError(r))
    /\ UNCHANGED <<rc_hw_csw, rc_hw_approtect, rc_erase_time, rc_qop, rc_qlog,
                   rc_qret, rc_reports>>

\* MainPoll giving up, with Ok, on the third non-zero status read.
MainPollGivesUp ==
    /\ RecFrame
    /\ rc_pc = "poll"
    /\ rc_polls < MaxPolls
    /\ rc_polls' = rc_polls + 1
    /\ \E r \in {"Ok"} \cup RawErrors :
         LET ap == CtrlAps[rc_i]
         IN  IF r = "Ok"
             THEN /\ rc_log' = Append(rc_log,
                       RcAccess(ap, ERASEALLSTATUS, "read",
                                EraseAllStatus(ap), r))
                  /\ rc_busy' = BusyAfterRead(ap)
                  /\ IF EraseAllStatus(ap) # {} /\ rc_polls < 2
                     THEN rc_pc' = rc_pc /\ rc_i' = rc_i /\ rc_ret' = rc_ret
                     ELSE IF rc_i < Len(CtrlAps)
                     THEN rc_pc' = "erase" /\ rc_i' = rc_i + 1
                          /\ rc_ret' = rc_ret
                     ELSE rc_i' = rc_i /\ RcFinish("done", UnitResult)
             ELSE /\ rc_log' = Append(rc_log,
                       RcAccess(ap, ERASEALLSTATUS, "read", {}, r))
                  /\ rc_busy' = rc_busy
                  /\ rc_i' = rc_i
                  /\ RcFinish("failed", RawError(r))
    /\ UNCHANGED <<rc_hw_csw, rc_hw_approtect, rc_erase_time, rc_qop, rc_qlog,
                   rc_qret, rc_reports>>

\* while iface.read_raw_ap_register(ap, ERASEALLSTATUS)? != 0 {}
\* One evaluation of the loop condition; on zero the for loop goes on to the
\* next control AP, or main returns Ok(()).
MainPoll ==
    /\ RecFrame
    /\ rc_pc = "poll"
    /\ rc_polls < MaxPolls
    /\ rc_polls' = rc_polls + 1
    /\ \E r \in {"Ok"} \cup RawErrors :
         LET ap == CtrlAps[rc_i]
         IN  IF r = "Ok"
             THEN /\ rc_log' = Append(rc_log,
                       RcAccess(ap, ERASEALLSTATUS, "read",
                                EraseAllStatus(ap), r))
                  /\ rc_busy' = BusyAfterRead(ap)
                  /\ IF EraseAllStatus(ap) # {}
                     THEN rc_pc' = rc_pc /\ rc_i' = rc_i /\ rc_ret' = rc_ret
                     ELSE IF rc_i < Len(CtrlAps)
                     THEN rc_pc' = "erase" /\ rc_i' = rc_i + 1
                          /\ rc_ret' = rc_ret
                     ELSE rc_i' = rc_i /\ RcFinish("done", UnitResult)
             ELSE /\ rc_log' = Append(rc_log,
                       RcAccess(ap, ERASEALLSTATUS, "read", {}, r))
                  /\ rc_busy' = rc_busy
                  /\ rc_i' = rc_i
                  /\ RcFinish("failed", RawError(r))
    /\ UNCHANGED <<rc_hw_csw, rc_hw_approtect, rc_erase_time, rc_qop, rc_qlog,
                   rc_qret, rc_reports>>

\* Before main and before any query.
RecIdle ==
    /\ rc_busy = [ap \in {APP_CTRL, NET_CTRL} |-> 0]
    /\ rc_pc = "idle"
    /\ rc_i = 1
    /\ rc_polls = 0
    /\ rc_log = <<>>
    /\ rc_ret = NoResult
    /\ rc_qop = <<>>
    /\ rc_qlog = <<>>
    /\ rc_qret = NoResult
    /\ rc_reports = {}

\* A target no recover is run on.
RecUnused ==
    /\ rc_hw_csw = {}
    /\ rc_hw_approtect = {}
    /\ rc_erase_time = [ap \in {APP_CTRL, NET_CTRL} |-> 0]
    /\ RecIdle

RecInit ==
    /\ rc_hw_csw \in LockCswRaws
    /\ rc_hw_approtect \in {{}, BitsOf(1)}
    /\ rc_erase_time \in
          [{APP_CTRL, NET_CTRL} -> (0..MaxBusy) \cup {Stuck}]
    /\ RecIdle

\* The steps of main once it has been called.
MainStep ==
    \/ MainReadIdr
    \/ MainStartErase
    \/ MainPoll

RecNext ==
    \/ \E aps \in Nrf5340CoreAps : Nrf5340IsCoreUnlocked(aps[1], aps[2])
    \/ \E aps \in Nrf9160CoreAps : Nrf9160IsCoreUnlocked(aps[1], aps[2])
    \/ CallMain
    \/ MainReadIdr
    \/ MainStartErase
    \/ MainPoll

\* ------------------------------------------------------- MemoryAp::new
\* The raw IDR values of the target: every TYPE nibble, with CLASS MemAp,
\* CLASS Undefined and a CLASS that is no enumerator, alone and with the
\* revision, designer and variant of 0x2477_0025.
MemoryApIdrRaws ==
    { BitsOf(type) \cup ShlBits(BitsOf(class), 13) \cup other :
        type \in 0..15, class \in {8, 0, 1},
        other \in { {}, Raw24770025 \ ((0..3) \cup (13..16)) } }

\* ArmError::WrongApType
WrongApType == [kind |-> "WrongApType"]

\* The variants of MemoryAp.
MemoryApVariants ==
    { "AmbaAhb3", "AmbaAhb5", "AmbaAhb5Hprot", "AmbaApb2Apb3", "AmbaApb4Apb5",
      "AmbaAxi3Axi4", "AmbaAxi5" }

\* The match of MemoryAp::new with JtagComAp built as an AmbaAhb3.
VariantOfTypeJtagAsAhb3(type) ==
    IF type = "JtagComAp" THEN "AmbaAhb3" ELSE type

\* match idr.TYPE { ApType::JtagComAp => return Err(ArmError::WrongApType),
\*                  ApType::$variant => <$type>::new(..)?.into() }
\* The variant built for a TYPE, "None" for the arm that returns the error.
VariantOfType(type) ==
    IF type = "JtagComAp" THEN "None" ELSE type

\* One register access of MemoryAp::new and its result.
NewAccess(reg, dir, result) == [reg |-> reg, dir |-> dir, result |-> result]

\* The accesses of a variant's new(): CSW read, CFG read, CSW write.
VariantNewAccesses ==
    << [reg |-> "CSW", dir |-> "read"], [reg |-> "CFG", dir |-> "read"],
       [reg |-> "CSW", dir |-> "write"] >>

\* MemoryAp::new ends.
NewFinish(r) == mn_pc' = "idle" /\ mn_ret' = r

\* MemoryAp::new(interface, address): entry.
CallMemoryApNew ==
    /\ NewFrame
    /\ mn_pc = "idle"
    /\ mn_pc' = "read_idr"
    /\ mn_raw_idr' = {}
    /\ mn_log' = <<>>
    /\ mn_ret' = NoResult
    /\ mn_ap' = NoResult
    /\ UNCHANGED mn_hw_idr

\* interface.read_raw_ap_register(address, IDR::ADDRESS)?
MemoryApNewReadIdr ==
    /\ NewFrame
    /\ mn_pc = "read_idr"
    /\ \E r \in {"Ok"} \cup RawErrors :
         /\ mn_log' = Append(mn_log, NewAccess("IDR", "read", r))
         /\ IF r = "Ok"
            THEN /\ mn_raw_idr' = mn_hw_idr
                 /\ mn_pc' = "match"
                 /\ mn_ret' = mn_ret
            ELSE /\ mn_raw_idr' = mn_raw_idr
                 /\ NewFinish(RawError(r))
    /\ UNCHANGED <<mn_hw_idr, mn_ap>>

\* .try_into()?; match idr.TYPE { .. }
MemoryApNewMatch ==
    /\ NewFrame
    /\ mn_pc = "match"
    /\ LET idr == IdrTryFrom(mn_raw_idr)
       IN  IF idr.kind # "Ok"
           THEN NewFinish(idr)
           ELSE IF VariantOfType(idr.value.TYPE) = "None"
           THEN NewFinish(WrongApType)
           ELSE mn_pc' = "variant_new" /\ mn_ret' = mn_ret
    /\ UNCHANGED <<mn_hw_idr, mn_raw_idr, mn_log, mn_ap>>

\* <$type>::new(interface, address.clone())?.into(): the variant's new() reads
\* CSW and CFG and writes CSW, as AmbaApb2Apb3::new does; it returns the
\* variant, or the error of the access that failed.
MemoryApNewVariant ==
    /\ NewFrame
    /\ mn_pc = "variant_new"
    /\ \E r \in {"Ok"} \cup RawErrors, n \in 1..Len(VariantNewAccesses) :
         LET issued ==
                 [i \in 1..n |->
                     NewAccess(VariantNewAccesses[i].reg,
                               VariantNewAccesses[i].dir,
                               IF i < n THEN "Ok" ELSE r)]
         IN  /\ r = "Ok" => n = Len(VariantNewAccesses)
             /\ mn_log' = mn_log \o issued
             /\ IF r = "Ok"
                THEN /\ mn_ap' = [variant |->
                                    VariantOfType(IdrTryFrom(mn_raw_idr).value.TYPE)]
                     /\ NewFinish(UnitResult)
                ELSE /\ mn_ap' = mn_ap
                     /\ NewFinish(RawError(r))
    /\ UNCHANGED <<mn_hw_idr, mn_raw_idr>>

NewIdle ==
    /\ mn_pc = "idle"
    /\ mn_raw_idr = {}
    /\ mn_log = <<>>
    /\ mn_ret = NoResult
    /\ mn_ap = NoResult

\* An AP MemoryAp::new is not called on.
NewUnused == mn_hw_idr = {} /\ NewIdle

NewInit == mn_hw_idr \in MemoryApIdrRaws /\ NewIdle

NewNext ==
    \/ CallMemoryApNew
    \/ MemoryApNewReadIdr
    \/ MemoryApNewMatch
    \/ MemoryApNewVariant

\* ------------------------------------------------- read_ap_information
\* The raw IDR values of the AP: 0x2477_0025 (class MemAp), the same with
\* class Undefined, zero, and a class that ApClass does not know.
InfoIdrRaws == { Raw24770025, Raw24770025 \ {16}, {}, {13} }

\* The raw BASE values: legacy format, and the format with a BASE2 half.
InfoBaseRaws == { BitsOf(4099), BitsOf(8193) }

\* The raw CSW values: Size 32 bits with AddrInc Off; Size 8 bits with
\* DeviceEn, AddrInc Single, PROT bits and bit 18, which no field holds; and
\* a Size DataSize does not know.
InfoCswRaws ==
    { BitsOf(2) \cup {31}, BitsOf(80) \cup {18, 25, 30}, BitsOf(7) }

\* The raw CFG values: LA alone and LD alone.
InfoCfgRaws == { {1}, {2} }

\* One register access of read_ap_information and its result.
InfoAccess(reg, dir, value, result) ==
    [reg |-> reg, dir |-> dir, value |-> value, result |-> result]

\* ApInformation::Other { address, idr }
ApInformationOther(version, access_port, idr) ==
    [kind |-> "Other", address |-> access_port,
     idr |-> [version |-> version, idr |-> idr]]

\* ApInformation::MemoryAp(MemoryApInformation { .. }); the base address is
\* held as its two 32-bit halves, and supports_hnonsec, which ap/v1 takes from
\* HNONSEC, bit 30 of CSW, is false in ap/v2.
ApInformationMemoryAp(version, loc, cfg) ==
    [kind |-> "MemoryAp",
     address |-> loc.access_port,
     supports_only_32bit_data_size |-> loc.csw.SIZE # "U8",
     debug_base_address |->
         [upper |-> IF loc.base.Format # "Legacy"
                    THEN loc.base2.BASEADDR ELSE {},
          lower |-> Shl(loc.base.BASEADDR, 12)],
     supports_hnonsec |-> version = "v1" /\ (loc.csw.PROT \div 64) % 2 = 1,
     has_large_address_extension |-> cfg.LA = 1,
     has_large_data_extension |-> cfg.LD = 1,
     device_enabled |-> loc.csw.DeviceEn = 1]

\* The call ends.
InfoFinish(r) == ai_pc' = "idle" /\ ai_ret' = r

\* What the CSW register holds after a write: an AP that only does 32-bit
\* accesses keeps SIZE at 0b010.
InfoCswStored(raw) == IF ai_only32 THEN (raw \ (0..2)) \cup {1} ELSE raw

\* probe.read_ap_register(access_port) of one register: the raw read and
\* its decode.
InfoReadEntry(reg, r) ==
    InfoAccess(reg, "read", IF r = "Ok" THEN ai_hw[reg] ELSE {}, r)

InfoReadResult(reg, r) ==
    IF r = "Ok" THEN TryFromU32(reg, ai_hw[reg]) ELSE RawError(r)

\* The argument and the locals before the first read.
InfoNoLocals ==
    [access_port |-> 0, idr |-> NoResult, base |-> NoResult,
     base2 |-> NoResult, old_csw |-> NoResult, csw |-> NoResult]

\* idr.CLASS == ApClass::MemAp with the TYPE tested in place of the CLASS.
IsMemApByType(idr) == idr.TYPE # "JtagComAp"

\* if idr.CLASS == ApClass::MemAp
IsMemAp(idr) == idr.CLASS = "MemAp"

\* read_ap_information(probe, access_port): entry.
CallReadApInformation(access_port) ==
    /\ InfoFrame
    /\ ai_pc = "idle"
    /\ ai_pc' = "idr"
    /\ ai_loc' = [InfoNoLocals EXCEPT !.access_port = access_port]
    /\ ai_log' = <<>>
    /\ ai_ret' = NoResult
    /\ UNCHANGED <<ai_version, ai_hw, ai_only32>>

\* let idr: IDR = probe.read_ap_register(access_port)?; and the CLASS test
\* with its else branch.
ReadApInformationIdr ==
    /\ InfoFrame
    /\ ai_pc = "idr"
    /\ \E r \in {"Ok"} \cup RawErrors :
        LET res == InfoReadResult("IDR", r)
        IN  /\ ai_log' = Append(ai_log, InfoReadEntry("IDR", r))
            /\ IF res.kind # "Ok"
               THEN InfoFinish(res) /\ ai_loc' = ai_loc
               ELSE /\ ai_loc' = [ai_loc EXCEPT !.idr = res.value]
                    /\ IF IsMemAp(res.value)
                       THEN ai_pc' = "base" /\ ai_ret' = ai_ret
                       ELSE InfoFinish(ApInformationOther(ai_version,
                                ai_loc.access_port, res.value))
    /\ UNCHANGED <<ai_version, ai_hw, ai_only32>>

\* let base_register: BASE = probe.read_ap_register(access_port)?;
ReadApInformationBase ==
    /\ InfoFrame
    /\ ai_pc = "base"
    /\ \E r \in {"Ok"} \cup RawErrors :
        LET res == InfoReadResult("BASE", r)
        IN  /\ ai_log' = Append(ai_log, InfoReadEntry("BASE", r))
            /\ IF res.kind # "Ok"
               THEN InfoFinish(res) /\ ai_loc' = ai_loc
               ELSE /\ ai_loc' = [ai_loc EXCEPT !.base = res.value]
                    /\ ai_pc' = IF res.value.Format # "Legacy"
                                THEN "base2" ELSE "old_csw"
                    /\ ai_ret' = ai_ret
    /\ UNCHANGED <<ai_version, ai_hw, ai_only32>>

\* let base2: BASE2 = probe.read_ap_register(access_port)?;
ReadApInformationBase2 ==
    /\ InfoFrame
    /\ ai_pc = "base2"
    /\ \E r \in {"Ok"} \cup RawErrors :
        LET res == InfoReadResult("BASE2", r)
        IN  /\ ai_log' = Append(ai_log, InfoReadEntry("BASE2", r))
            /\ IF res.kind # "Ok"
               THEN InfoFinish(res) /\ ai_loc' = ai_loc
               ELSE /\ ai_loc' = [ai_loc EXCEPT !.base2 = res.value]
                    /\ ai_pc' = "old_csw"
                    /\ ai_ret' = ai_ret
    /\ UNCHANGED <<ai_version, ai_hw, ai_only32>>

\* let old_csw: CSW = probe.read_ap_register(access_port)?;
ReadApInformationOldCsw ==
    /\ InfoFrame
    /\ ai_pc = "old_csw"
    /\ \E r \in {"Ok"} \cup RawErrors :
        LET res == InfoReadResult("CSW", r)
        IN  /\ ai_log' = Append(ai_log, InfoReadEntry("CSW", r))
            /\ IF res.kind # "Ok"
               THEN InfoFinish(res) /\ ai_loc' = ai_loc
               ELSE /\ ai_loc' = [ai_loc EXCEPT !.old_csw = res.value]
                    /\ ai_pc' = "probe_write"
                    /\ ai_ret' = ai_ret
    /\ UNCHANGED <<ai_version, ai_hw, ai_only32>>

\* let csw = CSW::new(DataSize::U8); probe.write_ap_register(access_port, csw)?;
ReadApInformationProbeWrite ==
    /\ InfoFrame
    /\ ai_pc = "probe_write"
    /\ \E r \in {"Ok"} \cup RawErrors :
        /\ ai_log' = Append(ai_log,
               InfoAccess("CSW", "write", CswInto(CswNew("U8")), r))
        /\ IF r = "Ok"
           THEN /\ ai_hw' = [ai_hw EXCEPT
                               !.CSW = InfoCswStored(CswInto(CswNew("U8")))]
                /\ ai_pc' = "probe_read"
                /\ ai_ret' = ai_ret
           ELSE /\ InfoFinish(RawError(r))
                /\ ai_hw' = ai_hw
    /\ UNCHANGED <<ai_version, ai_only32, ai_loc>>

\* let csw: CSW = probe.read_ap_register(access_port)?;
ReadApInformationProbeRead ==
    /\ InfoFrame
    /\ ai_pc = "probe_read"
    /\ \E r \in {"Ok"} \cup RawErrors :
        LET res == InfoReadResult("CSW", r)
        IN  /\ ai_log' = Append(ai_log, InfoReadEntry("CSW", r))
            /\ IF res.kind # "Ok"
               THEN InfoFinish(res) /\ ai_loc' = ai_loc
               ELSE /\ ai_loc' = [ai_loc EXCEPT !.csw = res.value]
                    /\ ai_pc' = "restore"
                    /\ ai_ret' = ai_ret
    /\ UNCHANGED <<ai_version, ai_hw, ai_only32>>

\* ReadApInformationRestore writing the probing CSW once more.
ReadApInformationRestoreWritesProbe ==
    /\ InfoFrame
    /\ ai_pc = "restore"
    /\ \E r \in {"Ok"} \cup RawErrors :
        /\ ai_log' = Append(ai_log,
               InfoAccess("CSW", "write", CswInto(CswNew("U8")), r))
        /\ IF r = "Ok"
           THEN /\ ai_hw' = [ai_hw EXCEPT
                               !.CSW = InfoCswStored(CswInto(CswNew("U8")))]
                /\ ai_pc' = "cfg"
                /\ ai_ret' = ai_ret
           ELSE /\ InfoFinish(RawError(r))
                /\ ai_hw' = ai_hw
    /\ UNCHANGED <<ai_version, ai_only32, ai_loc>>

\* probe.write_ap_register(access_port, old_csw)?;
ReadApInformationRestore ==
    /\ InfoFrame
    /\ ai_pc = "restore"
    /\ \E r \in {"Ok"} \cup RawErrors :
        /\ ai_log' = Append(ai_log,
               InfoAccess("CSW", "write", CswInto(ai_loc.old_csw), r))
        /\ IF r = "Ok"
           THEN /\ ai_hw' = [ai_hw EXCEPT
                               !.CSW = InfoCswStored(CswInto(ai_loc.old_csw))]
                /\ ai_pc' = "cfg"
                /\ ai_ret' = ai_ret
           ELSE /\ InfoFinish(RawError(r))
                /\ ai_hw' = ai_hw
    /\ UNCHANGED <<ai_version, ai_only32, ai_loc>>

\* let cfg: CFG = probe.read_ap_register(access_port)?; and
\* Ok(ApInformation::MemoryAp(..))
ReadApInformationCfg ==
    /\ InfoFrame
    /\ ai_pc = "cfg"
    /\ \E r \in {"Ok"} \cup RawErrors :
        LET res == InfoReadResult("CFG", r)
        IN  /\ ai_log' = Append(ai_log, InfoReadEntry("CFG", r))
            /\ IF res.kind # "Ok"
               THEN InfoFinish(res)
               ELSE InfoFinish(ApInformationMemoryAp(ai_version, ai_loc,
                                                     res.value))
    /\ UNCHANGED <<ai_version, ai_hw, ai_only32, ai_loc>>

InfoIdle ==
    /\ ai_pc = "idle"
    /\ ai_loc = InfoNoLocals
    /\ ai_log = <<>>
    /\ ai_ret = NoResult

\* An AP read_ap_information is not called on.
InfoUnused ==
    /\ ai_version = "v1"
    /\ ai_hw = [IDR |-> {}, BASE |-> {}, BASE2 |-> {}, CSW |-> {}, CFG |-> {}]
    /\ ai_only32 = FALSE
    /\ InfoIdle

InfoInit ==
    /\ ai_version \in {"v1", "v2"}
    /\ ai_hw \in [IDR : InfoIdrRaws, BASE : InfoBaseRaws, BASE2 : {BitsOf(1)},
                  CSW : InfoCswRaws, CFG : InfoCfgRaws]
    /\ ai_only32 \in BOOLEAN
    /\ InfoIdle

InfoNext ==
    \/ \E port \in Ports : CallReadApInformation(port)
    \/ ReadApInformationIdr
    \/ ReadApInformationBase
    \/ ReadApInformationBase2
    \/ ReadApInformationOldCsw
    \/ ReadApInformationProbeWrite
    \/ ReadApInformationProbeRead
    \/ ReadApInformationRestore
    \/ ReadApInformationCfg

\* ------------------------------------------------- the ArmProbe machine
\* A probe over a pre-filled memory.  The writes of one behaviour all go to
\* one range with one pattern, chosen here, which keeps the memory's states
\* finite without a bound on the number of calls; reads are of any range.
ProbeInit ==
    /\ mem = [x \in 0..MemTop |-> Sentinel(x)]
    /\ supports8 \in {"yes", "no", "err"}
    /\ req_address \in 0..MaxAddr
    /\ req_data \in DataSet
    /\ pc = "idle"
    /\ op = "none"
    /\ arg_address = 0
    /\ arg_data = <<>>
    /\ address = 0
    /\ data = <<>>
    /\ start_extra_count = 0
    /\ end_extra_count = 0
    /\ inbetween_count = 0
    /\ buffer = <<>>
    /\ xfers = <<>>
    /\ ret = "none"
    /\ wr_ret = "none"
    /\ wr_mem0 = [x \in 0..MemTop |-> Sentinel(x)]

ProbeNext ==
    \/ CallWrite(req_address, req_data)
    \/ WriteHead
    \/ WriteBody
    \/ WriteTail
    \/ \E a \in 0..MaxAddr, n \in 0..MaxLen : CallRead(a, n)
    \/ ReadFetch
    \/ ReadCopy

\* A probe that has not been used: the state the other machines leave it in.
ProbeIdle ==
    /\ ProbeInit
    /\ supports8 = "yes"
    /\ req_address = 0
    /\ req_data = <<>>

\* A memory AP that is not used.
ApUnused == ap_large = FALSE /\ ApIdle

InitProbe ==
    ProbeInit /\ ApUnused /\ ScanIdle /\ RegUnused /\ ApbUnused /\ RecUnused
        /\ NewUnused /\ InfoUnused

SpecProbe == InitProbe /\ [][ProbeNext]_vars

InitMemAp ==
    ProbeIdle /\ ApInit /\ ScanIdle /\ RegUnused /\ ApbUnused /\ RecUnused
        /\ NewUnused /\ InfoUnused

SpecMemAp == InitMemAp /\ [][ApNext]_vars

InitScan ==
    ProbeIdle /\ ApUnused /\ ScanIdle /\ RegUnused /\ ApbUnused /\ RecUnused
        /\ NewUnused /\ InfoUnused

SpecScan == InitScan /\ [][ScanNext]_vars

InitRegister ==
    ProbeIdle /\ ApUnused /\ ScanIdle /\ RegInit /\ ApbUnused /\ RecUnused
        /\ NewUnused /\ InfoUnused

SpecRegister == InitRegister /\ [][RegNext]_vars

InitApb ==
    ProbeIdle /\ ApUnused /\ ScanIdle /\ RegUnused /\ ApbInit /\ RecUnused
        /\ NewUnused /\ InfoUnused

SpecApb == InitApb /\ [][ApbNext]_vars

SpecApbVolatile == InitApb /\ [][ApbVolatileNext]_vars

InitRecover ==
    ProbeIdle /\ ApUnused /\ ScanIdle /\ RegUnused /\ ApbUnused /\ RecInit
        /\ NewUnused /\ InfoUnused

SpecRecover == InitRecover /\ [][RecNext]_vars

\* main is a sequential program: once called it keeps taking its steps.
SpecRecoverLive == SpecRecover /\ WF_vars(MainStep)

InitMemoryApNew ==
    ProbeIdle /\ ApUnused /\ ScanIdle /\ RegUnused /\ ApbUnused /\ RecUnused
        /\ NewInit /\ InfoUnused

SpecMemoryApNew == InitMemoryApNew /\ [][NewNext]_vars

InitApInformation ==
    ProbeIdle /\ ApUnused /\ ScanIdle /\ RegUnused /\ ApbUnused /\ RecUnused
        /\ NewUnused /\ InfoInit

SpecApInformation == InitApInformation /\ [][InfoNext]_vars

\* ------------------------------------------------------------ properties
\* The bytes one transfer stores, as <<address, byte>> pairs in address order:
\* write_8 stores its bytes one by one, write_32 its words little-endian.
XferBytes(t) ==
    IF t.kind = "write_8"
    THEN [i \in 1..Len(t.payload) |-> <<t.address + i - 1, t.payload[i]>>]
    ELSE IF t.kind = "write_32"
    THEN [i \in 1..(4 * Len(t.payload)) |->
            <<t.address + i - 1,
              ToLeBytes(t.payload[((i - 1) \div 4) + 1])[((i - 1) % 4) + 1]>>]
    ELSE <<>>

\* The bytes a sequence of transfers stores, in the order they are stored.
RECURSIVE ByteWrites(_)
ByteWrites(xs) ==
    IF xs = <<>> THEN <<>>
    ELSE ByteWrites(SubSeq(xs, 1, Len(xs) - 1)) \o XferBytes(xs[Len(xs)])

\* data[i] at address + i, for every i, once each and in order.
Requested(a, d) == [i \in 1..Len(d) |-> <<a + i - 1, d[i]>>]

IsPrefix(s, t) == Len(s) <= Len(t) /\ \A i \in 1..Len(s) : s[i] = t[i]

InRange(x, a, n) == a <= x /\ x < a + n

\* C1: the transfers ArmProbe::write issues store data[i] at address + i
\* (words little-endian), each byte of [address, address + len) exactly once
\* and no byte outside it: at every point of the call the bytes stored so far
\* are a prefix of the requested ones, and on Ok they are all of them and the
\* memory differs from the memory before the call in exactly that range.
C1_WriteExact ==
    op = "write" =>
        /\ IsPrefix(ByteWrites(xfers), Requested(arg_address, arg_data))
        /\ (pc = "idle" /\ ret = "Ok") =>
              /\ ByteWrites(xfers) = Requested(arg_address, arg_data)
              /\ \A x \in DOMAIN mem :
                    mem[x] = IF InRange(x, arg_address, Len(arg_data))
                             THEN arg_data[x - arg_address + 1]
                             ELSE wr_mem0[x]

\* A write in three phases (head bytes, whole words, tail bytes) returned Ok.
C1_Witness ==
    /\ op = "write" /\ pc = "idle" /\ ret = "Ok" /\ supports8 = "yes"
    /\ start_extra_count > 0 /\ inbetween_count > 0 /\ end_extra_count > 0
    /\ Len(xfers) = 3

\* C2: ArmProbe::write returns the alignment error, with no transfer issued,
\* exactly when 8-bit transfers are not supported and the address or the
\* length is not a multiple of 4; an aligned request proceeds with word
\* transfers only, whatever supports_8bit_transfers() would return.
C2_AlignmentError ==
    (op = "write" /\ pc = "idle") =>
        LET misaligned == arg_address % 4 # 0 \/ Len(arg_data) % 4 # 0
        IN  /\ (ret = "MemoryNotAligned") <=> (supports8 = "no" /\ misaligned)
            /\ (ret = "MemoryNotAligned") => xfers = <<>>
            /\ ~misaligned =>
                  /\ ret \in {"Ok", "Err"}
                  /\ \A i \in 1..Len(xfers) : xfers[i].kind = "write_32"
                  /\ Len(xfers) = (IF Len(arg_data) > 0 THEN 1 ELSE 0)

\* A misaligned write was refused with the alignment error.
C2_Witness ==
    /\ op = "write" /\ pc = "idle" /\ ret = "MemoryNotAligned"
    /\ arg_address % 4 = 0 /\ Len(arg_data) % 4 # 0

\* C3: for a request with address or length not a multiple of 4, a read whose
\* read_32 succeeded returns Ok with data[i] the memory byte at address + i.
C3_UnalignedReadExact ==
    ( /\ op = "read" /\ pc = "idle" /\ ret # "Err"
      /\ (arg_address % 4 # 0 \/ Len(arg_data) % 4 # 0) ) =>
        /\ ret = "Ok"
        /\ \A i \in 1..Len(data) : data[i] = mem[arg_address + i - 1]

\* C4: an aligned read issues exactly one read_32, of len / 4 words at
\* address, and on Ok data[4j..4j+4] are the little-endian bytes of word j,
\* so that data[i] is the memory byte at address + i.
C4_AlignedReadExact ==
    ( /\ op = "read" /\ pc = "idle"
      /\ arg_address % 4 = 0 /\ Len(arg_data) % 4 = 0 ) =>
        /\ xfers = << [kind |-> "read_32", address |-> arg_address,
                       payload |-> Len(arg_data) \div 4,
                       ok |-> (ret = "Ok")] >>
        /\ ret \in {"Ok", "Err"}
        /\ ret = "Ok" =>
              /\ Len(data) = Len(arg_data)
              /\ \A j \in 1..(Len(data) \div 4) :
                    <<data[4 * j - 3], data[4 * j - 2], data[4 * j - 1],
                      data[4 * j]>> = ToLeBytes(buffer[j])
              /\ \A i \in 1..Len(data) : data[i] = mem[arg_address + i - 1]

\* An aligned read of two words returned Ok, over a memory a write changed.
C4_Witness ==
    /\ op = "read" /\ pc = "idle" /\ ret = "Ok"
    /\ arg_address % 4 = 0 /\ Len(data) = 8
    /\ wr_ret = "Ok" /\ mem # wr_mem0

\* C5: with sub-word transfers supported, a write of a pattern to [a, a + n)
\* that returned Ok, followed by a read of [a, a + n) whose read_32 succeeds,
\* returns exactly the pattern, for n not a multiple of 4, and the sentinel
\* bytes outside [a, a + n) are unchanged.
C5_WriteReadRoundTrip ==
    ( /\ op = "read" /\ pc = "idle" /\ ret # "Err"
      /\ supports8 = "yes" /\ wr_ret = "Ok"
      /\ arg_address = req_address /\ Len(arg_data) = Len(req_data)
      /\ Len(req_data) % 4 # 0 ) =>
        /\ ret = "Ok"
        /\ data = req_data
        /\ \A x \in DOMAIN mem :
              ~InRange(x, req_address, Len(req_data)) => mem[x] = Sentinel(x)

\* C6: ArmProbe::read ends with Ok or an error for every address and every
\* buffer length: it never aborts on an out-of-range index.
C6_ReadNeverAborts == op = "read" => ret # "panic"

\* C7: with the large-address extension, set_target_address writes TAR2 with
\* the high 32 bits of the address first and then TAR with the low 32 bits;
\* TAR is never written before TAR2, and not at all if the TAR2 write fails.
C7_Tar2BeforeTar ==
    (ap_op = "set_target_address" /\ ap_large) =>
        LET hi == ap_address[3] + 65536 * ap_address[4]
            lo == ap_address[1] + 65536 * ap_address[2]
        IN  /\ Len(ap_log) <= 2
            /\ Len(ap_log) >= 1 =>
                  /\ ap_log[1].reg = "TAR2" /\ ap_log[1].dir = "write"
                  /\ ap_log[1].value = hi
            /\ Len(ap_log) = 2 =>
                  /\ ap_log[1].ok
                  /\ ap_log[2].reg = "TAR" /\ ap_log[2].dir = "write"
                  /\ ap_log[2].value = lo
            /\ ap_pc = "idle" =>
                  /\ ap_ret \in {"Ok", "Err"}
                  /\ (ap_ret = "Ok") <=> (Len(ap_log) = 2 /\ ap_log[2].ok)
                  /\ ~ap_log[1].ok => Len(ap_log) = 1

\* An address above 2^32 was set through TAR2 and TAR.
C7_Witness ==
    /\ ap_op = "set_target_address" /\ ap_large /\ ap_pc = "idle"
    /\ ap_ret = "Ok" /\ ap_address[4] # 0 /\ ap_address[2] # 0

\* C8: without the large-address extension, set_target_address of an address
\* of 2^32 or more returns OutOfBounds with no register written; of an
\* address below 2^32 it writes TAR once, with the address, and never TAR2.
C8_NoExtension ==
    (ap_op = "set_target_address" /\ ~ap_large) =>
        LET hi == ap_address[3] + 65536 * ap_address[4]
            lo == ap_address[1] + 65536 * ap_address[2]
        IN  IF hi # 0
            THEN /\ ap_log = <<>>
                 /\ ap_pc = "idle" => ap_ret = "OutOfBounds"
            ELSE /\ Len(ap_log) <= 1
                 /\ ap_pc = "idle" =>
                       /\ ap_ret \in {"Ok", "Err"}
                       /\ ap_log = << [reg |-> "TAR", dir |-> "write",
                                       value |-> lo, ok |-> (ap_ret = "Ok")] >>

\* An address whose upper half has only high bits set was refused.
C8_Witness ==
    /\ ap_op = "set_target_address" /\ ~ap_large /\ ap_pc = "idle"
    /\ ap_ret = "OutOfBounds" /\ ap_address[3] = 0

\* C9: read_data and write_data on N words issue exactly N accesses to DRW,
\* the i-th for values[i], and no access to any other register.
C9_OneDrwPerWord ==
    (ap_op \in {"read_data", "write_data"}) =>
        /\ Len(ap_log) <= Len(values0)
        /\ \A i \in 1..Len(ap_log) :
              /\ ap_log[i].reg = "DRW"
              /\ ap_log[i].dir = (IF ap_op = "read_data" THEN "read" ELSE "write")
              /\ ap_op = "write_data" => ap_log[i].value = values0[i]
              /\ (ap_op = "read_data" /\ ap_log[i].ok) =>
                    values[i] = ap_log[i].value
        /\ (ap_pc = "idle" /\ ap_ret = "Ok") =>
              /\ Len(ap_log) = Len(values0)
              /\ \A i \in 1..Len(ap_log) : ap_log[i].ok

\* write_data of words that differ went through.
C9_Witness ==
    /\ ap_op = "write_data" /\ ap_pc = "idle" /\ ap_ret = "Ok"
    /\ Len(values0) >= 2 /\ values0[1] # values0[2]

IdrNonZero(e) == e.result.kind = "Ok" /\ e.result.value # 0

IdrZero(e) == e.result.kind = "Ok" /\ e.result.value = 0

\* C10: the scan reads the IDR of index 0, 1, 2, ... in turn; if the reads at
\* 0..k-1 return non-zero values and the read at k returns zero, the result
\* is the k APs 0..k-1 in ascending order and no index above k is accessed;
\* if all of 0..255 are non-zero the scan ends after index 255 with 256 APs.
C10_DiscoveryStopsAtZero ==
    /\ Len(scan_log) <= 256
    /\ \A i \in 1..Len(scan_log) : scan_log[i].ap = i - 1
    /\ \A k \in 0..255 :
          ( /\ Len(scan_log) > k
            /\ \A i \in 1..k : IdrNonZero(scan_log[i])
            /\ IdrZero(scan_log[k + 1]) ) =>
              /\ scan_pc = "done"
              /\ scan_found = [i \in 1..k |-> i - 1]
              /\ Len(scan_log) = k + 1
    /\ ( /\ Len(scan_log) = 256
         /\ \A i \in 1..256 : IdrNonZero(scan_log[i]) ) =>
              /\ scan_pc = "done"
              /\ scan_found = [i \in 1..256 |-> i - 1]

\* Three APs were found and the scan stopped at the zero IDR of index 3.
C10_Witness ==
    /\ scan_pc = "done" /\ Len(scan_found) = 3
    /\ Len(scan_log) = 4 /\ IdrZero(scan_log[4])

IdrFailed(e) == e.result.kind \in {"Transport", "RegisterParse"}

\* C11: a failed IDR read (an error of the transport or of the register's
\* decode) at an index is taken for 'no AP there': access_port_is_valid is
\* false for it, and when the reads at 0..k-1 found APs and the read at k
\* failed, valid_access_ports ends with the APs 0..k-1 as its result; the
\* scan has no outcome other than that list, so the error is not surfaced.
C11_FailedReadIsAbsent ==
    /\ scan_pc \in {"idle", "scan", "done"}
    /\ \A i \in 1..Len(scan_log) :
          IdrFailed(scan_log[i]) => ~AccessPortIsValid(scan_log[i].result)
    /\ \A k \in 0..255 :
          ( /\ Len(scan_log) > k
            /\ \A i \in 1..k : IdrNonZero(scan_log[i])
            /\ IdrFailed(scan_log[k + 1]) ) =>
              /\ scan_pc = "done"
              /\ scan_found = [i \in 1..k |-> i - 1]

\* Two APs were found and the scan ended at the failed decode of index 2.
C11_Witness ==
    /\ scan_pc = "done" /\ scan_found = <<0, 1>>
    /\ Len(scan_log) = 3 /\ scan_log[3].result.kind = "RegisterParse"

\* The targets that answer the reads of the scan as the log says: what the
\* indices the scan did not read hold is free.
TargetsOfLog ==
    { [i \in 0..LastApIndex |->
          IF i < Len(scan_log) THEN scan_log[i + 1].result ELSE r] :
      r \in IdrReadResults }

\* The gaps of the scan: the indices whose IDR read failed or was zero.
Gaps == { i \in 1..Len(scan_log) : IdrFailed(scan_log[i]) \/ IdrZero(scan_log[i]) }

\* C12 (as stated): the scan goes on past an index whose IDR read fails or is
\* zero, so that on every target an AP present above the gap is in the
\* result.
C12_ScanPastGap ==
    scan_pc = "done" =>
        \A t \in TargetsOfLog : \A g \in Gaps : \A j \in g..LastApIndex :
            AccessPortIsValid(t[j]) =>
                \E n \in 1..Len(scan_found) : scan_found[n] = j

\* C12 (amended): an index whose IDR read fails or is zero ends the scan: it
\* is the last index read, the result is the APs below it, and no index
\* above the gap is read or included, whatever the target holds there.
C12_ScanStopsAtGap ==
    \A g \in Gaps :
        /\ scan_pc = "done"
        /\ Len(scan_log) = g
        /\ scan_found = [i \in 1..(g - 1) |-> i - 1]
        /\ \A n \in 1..Len(scan_found) : scan_found[n] < g - 1

\* The scan ended at the zero IDR of index 1 with indices 2..255 unread.
C12_Witness ==
    /\ scan_pc = "done" /\ scan_found = <<0>>
    /\ Len(scan_log) = 2 /\ IdrZero(scan_log[2])

\* A typed read of the register returned Ok.
ReadOk == rg_op = "read" /\ rg_ret.kind = "Ok"

\* designer code: the 11 bits (cc << 7) | id of a JEP106Code.
DesignerCode(d) == d.cc * 128 + d.id

\* C13 (as stated): the IDR raw value 0x24770025 decodes to designer code
\* 0x23B, revision 2, class MemAp and type AmbaAhb3, and encoding the decoded
\* value gives 0x24770025 again.
C13_Idr24770025Ahb3 ==
    (rg_reg = "IDR" /\ rg_raw0 = Raw24770025) =>
        /\ ReadOk =>
              /\ DesignerCode(rg_ret.value.DESIGNER) = 571
              /\ rg_ret.value.REVISION = 2
              /\ rg_ret.value.CLASS = "MemAp"
              /\ rg_ret.value.TYPE = "AmbaAhb3"
        /\ rg_op = "write" => rg_log[1].value = Raw24770025

\* C13 (amended): the IDR raw value 0x24770025 decodes to designer code
\* 0x23B, revision 2, class MemAp, variant 2 and type AmbaAhb5, and encoding
\* the decoded value gives 0x24770025 again.
C13_Idr24770025Ahb5 ==
    (rg_reg = "IDR" /\ rg_raw0 = Raw24770025) =>
        /\ (rg_op = "read" /\ rg_log[1].result = "Ok") =>
              /\ rg_ret.kind = "Ok"
              /\ DesignerCode(rg_ret.value.DESIGNER) = 571
              /\ rg_ret.value.REVISION = 2
              /\ rg_ret.value.CLASS = "MemAp"
              /\ rg_ret.value.VARIANT = 2
              /\ rg_ret.value.TYPE = "AmbaAhb5"
        /\ rg_op = "write" => rg_log[1].value = Raw24770025

\* 0x24770025 was read as an IDR and the IDR was written back.
C13_Witness ==
    /\ rg_reg = "IDR" /\ rg_raw0 = Raw24770025
    /\ rg_op = "write" /\ rg_ret = UnitResult
    /\ rg_value.value.TYPE = "AmbaAhb5" /\ rg_raw = Raw24770025

\* C14 (as stated): the IDR decode takes revision from bits [31:28], the
\* designer code from [27:17], class from [16:13], variant from [11:8] and
\* the type tag from the low bits, [3:0] or [7:0].
C14_IdrFieldsVariantAt8 ==
    (rg_reg = "IDR" /\ ReadOk) =>
        LET raw == rg_log[1].value
            idr == rg_ret.value
        IN  /\ idr.REVISION = Field(raw, 28, 4)
            /\ DesignerCode(idr.DESIGNER) = Field(raw, 17, 11)
            /\ ApClassToU32(idr.CLASS) = Field(raw, 13, 4)
            /\ idr.VARIANT = Field(raw, 8, 4)
            /\ ApTypeToU32(idr.TYPE) \in {Field(raw, 0, 4), Field(raw, 0, 8)}

\* C14 (amended): the IDR decode takes revision from bits [31:28], the
\* designer code from [27:17], class from [16:13], variant from [7:4] and the
\* type tag from bits [3:0].
C14_IdrFields ==
    (rg_reg = "IDR" /\ ReadOk) =>
        LET raw == rg_log[1].value
            idr == rg_ret.value
        IN  /\ idr.REVISION = Field(raw, 28, 4)
            /\ DesignerCode(idr.DESIGNER) = Field(raw, 17, 11)
            /\ ApClassToU32(idr.CLASS) = Field(raw, 13, 4)
            /\ idr.VARIANT = Field(raw, 4, 4)
            /\ ApTypeToU32(idr.TYPE) = Field(raw, 0, 4)

\* The IDR 0x24770025 was decoded: bits [11:8] are 0, the variant is 2.
C14_Witness ==
    /\ rg_reg = "IDR" /\ ReadOk /\ rg_log[1].value = Raw24770025
    /\ Field(rg_log[1].value, 8, 4) = 0
    /\ rg_ret.value.VARIANT = 2

\* C15: for every register type and every register value v a decode has
\* produced, decode(encode(v)) = v: converting v to its raw value and back
\* gives v, and a read of the register after v was written to it returns v.
C15_DecodeEncode ==
    /\ rg_value.kind = "Ok" =>
          TryFromU32(rg_reg, IntoU32(rg_reg, rg_value.value)) = rg_value
    /\ ( /\ rg_op \in {"read", "try_from"} /\ rg_ret.kind = "Ok"
         /\ rg_prev.kind = "Ok"
         /\ rg_raw = IntoU32(rg_reg, rg_prev.value) ) =>
              rg_ret = rg_prev

\* A BASE register with every bit set was read, written back and read again.
C15_Witness ==
    /\ rg_reg = "BASE" /\ rg_raw0 = 0..31 /\ ReadOk
    /\ rg_prev.kind = "Ok" /\ rg_raw # rg_raw0
    /\ rg_raw = IntoU32(rg_reg, rg_prev.value)

\* C16: for every register type and every raw value that decodes,
\* encode(decode(raw)) = raw: the bits the fields do not model are kept, so
\* that writing back a value that was read leaves the register as it was.
C16_EncodeDecode ==
    /\ ReadOk => IntoU32(rg_reg, rg_ret.value) = rg_log[1].value
    /\ (rg_op = "try_from" /\ rg_ret.kind = "Ok") =>
          IntoU32(rg_reg, rg_ret.value) = rg_raw
    /\ rg_op \in {"write", "into"} => rg_raw = rg_raw0

\* C17: a decode fails with a RegisterParseError that carries the register's
\* name and the raw value, and returns no register, whenever an enumerated
\* field holds an unknown pattern: a CSW with AddrInc = 0b11 or a Size that
\* is no known size, an IDR with a CLASS or a TYPE that is no enumerator.
C17_UnknownEnumeratorFails ==
    (rg_op = "read" /\ rg_log[1].result = "Ok") =>
        LET raw == rg_log[1].value
        IN  /\ ( /\ rg_reg \in {"CSW", "ApbCSW"}
                 /\ (Field(raw, 4, 2) = 3 \/ Field(raw, 0, 3) \in {6, 7}) ) =>
                    /\ rg_ret = [kind |-> "RegisterParse", name |-> "CSW",
                                 raw |-> raw]
                    /\ rg_value = rg_prev
            /\ ( /\ rg_reg = "IDR"
                 /\ \/ Field(raw, 13, 4) \notin {0, 8}
                    \/ Field(raw, 0, 4) \notin {0, 1, 2, 4, 5, 6, 7, 8} ) =>
                    /\ rg_ret = [kind |-> "RegisterParse", name |-> "IDR",
                                 raw |-> raw]
                    /\ rg_value = rg_prev

\* An IDR whose TYPE bits are 0b0011 was read and refused.
C17_Witness ==
    /\ rg_reg = "IDR" /\ rg_op = "read" /\ rg_log[1].result = "Ok"
    /\ Field(rg_log[1].value, 0, 4) = 3 /\ Field(rg_log[1].value, 13, 4) = 0
    /\ rg_ret.kind = "RegisterParse"

\* C18: a typed read is one raw read at (port, R::ADDRESS) followed by the
\* decode of what was read; a typed write is one raw write of the encoded
\* register at (port, R::ADDRESS); a failure of the raw access is returned
\* as it is, with no second access.
C18_OneRawAccess ==
    /\ rg_op = "read" =>
          /\ Len(rg_log) = 1
          /\ rg_log[1].dir = "read"
          /\ rg_log[1].port = rg_port
          /\ rg_log[1].address = RegisterAddress(rg_reg)
          /\ rg_ret = IF rg_log[1].result = "Ok"
                      THEN TryFromU32(rg_reg, rg_log[1].value)
                      ELSE RawError(rg_log[1].result)
    /\ rg_op = "write" =>
          /\ Len(rg_log) = 1
          /\ rg_log[1].dir = "write"
          /\ rg_log[1].port = rg_port
          /\ rg_log[1].address = RegisterAddress(rg_reg)
          /\ rg_log[1].value = IntoU32(rg_reg, rg_value.value)
          /\ rg_ret = IF rg_log[1].result = "Ok"
                      THEN UnitResult ELSE RawError(rg_log[1].result)

\* A typed write on port 1 failed in the probe after a read had succeeded.
C18_Witness ==
    /\ rg_op = "write" /\ rg_port = 1 /\ rg_ret = RawError("Timeout")
    /\ rg_value.kind = "Ok" /\ rg_reg = "TAR"

\* new() of the AP has returned Ok.
ApbNewOk == apb_op = "new" /\ apb_pc = "idle" /\ apb_ret = UnitResult

\* C19 (as stated): AmbaApb2Apb3::new writes CSW back only if the value read
\* differs from the one wanted: with DbgSwEnable = 1 and AddrInc = Single
\* already read, it issues no CSW write.
C19_WriteOnlyIfChanged ==
    apb_op = "new" =>
        \A i \in 1..Len(apb_log) :
            apb_log[i].dir = "write" =>
                ApbNewCsw(ApbCswTryFrom(apb_raw_csw).value)
                    # ApbCswTryFrom(apb_raw_csw).value

\* C19 (amended): AmbaApb2Apb3::new writes CSW back, once, whenever both
\* reads succeeded and the CSW read decodes, whether or not the value read
\* differs from the one wanted: with DbgSwEnable = 1 and AddrInc = Single
\* already read, the write is issued all the same, with the value read.
C19_AlwaysWrites ==
    (apb_op = "new" /\ apb_pc = "idle" /\ Len(apb_log) >= 2
        /\ apb_log[2].result = "Ok"
        /\ ApbCswTryFrom(apb_raw_csw).kind = "Ok") =>
        LET csw_read == ApbCswTryFrom(apb_raw_csw).value
        IN  /\ Len(apb_log) = 3
            /\ apb_log[3].reg = "CSW" /\ apb_log[3].dir = "write"
            /\ apb_log[3].value = ApbCswInto(ApbNewCsw(csw_read))
            /\ ApbNewCsw(csw_read) = csw_read =>
                  apb_log[3].value = apb_raw_csw

\* new() returned Ok on a CSW that already had DbgSwEnable = 1 and
\* AddrInc = Single, and wrote it.
C19_Witness ==
    /\ ApbNewOk
    /\ 31 \in apb_raw_csw /\ Field(apb_raw_csw, 4, 2) = 1
    /\ apb_log[3].dir = "write" /\ apb_log[3].value = apb_raw_csw

\* C20: when AmbaApb2Apb3::new returns Ok it has read CSW once and CFG once;
\* the cached CSW has DbgSwEnable = true and AddrInc = Single and every
\* other field as read; has_large_address_extension and
\* has_large_data_extension are the LA and LD bits of the CFG read, and stay
\* so under every later operation; a CSW that does not decode makes new()
\* return the error with no CSW write.
C20_NewReadsOnceAndCaches ==
    /\ ApbNewOk =>
          /\ Len(apb_log) = 3
          /\ apb_log[1] = ApbAccess("CSW", "read", apb_raw_csw, "Ok")
          /\ apb_log[2] = ApbAccess("CFG", "read", apb_raw_cfg, "Ok")
          /\ apb_log[3].dir = "write"
          /\ apb_me.csw.DbgSwEnable = TRUE
          /\ apb_me.csw.AddrInc = "Single"
          /\ apb_me.csw.TrInProg = (7 \in apb_raw_csw)
          /\ apb_me.csw.DeviceEn = (6 \in apb_raw_csw)
          /\ DataSizeToU32(apb_me.csw.Size) = Field(apb_raw_csw, 0, 3)
          /\ apb_me.csw.reserved_bits = apb_raw_csw \cap ((8..30) \cup {3})
    /\ apb_me # NoResult =>
          /\ HasLargeAddressExtension(apb_me) = (1 \in apb_raw_cfg)
          /\ HasLargeDataExtension(apb_me) = (2 \in apb_raw_cfg)
    /\ (apb_op = "new" /\ apb_ret.kind = "RegisterParse") =>
          /\ apb_me = NoResult
          /\ \A i \in 1..Len(apb_log) : apb_log[i].dir = "read"

\* An AP built from a CSW with AddrInc = Off and a CFG with LA and not LD has
\* had its AddrInc changed by a later call.
C20_Witness ==
    /\ apb_op = "try_set_datasize_and_incr" /\ apb_ret = UnitResult
    /\ Len(apb_log) = 1
    /\ Field(apb_raw_csw, 4, 2) = 0
    /\ HasLargeAddressExtension(apb_me) /\ ~HasLargeDataExtension(apb_me)

\* The error the APB2/APB3 AP owes to arguments it does not support, or
\* NoResult for arguments it supports.
ApbCapabilityError(arg) ==
    IF arg[1] # "U32"
    THEN UnsupportedTransferWidth(8 * ToByteCount(arg[1]))
    ELSE IF Len(arg) = 2 /\ arg[2] = "Packed"
    THEN UnsupportedAddressIncrement("Packed")
    ELSE NoResult

\* The last operation was try_set_datasize or try_set_datasize_and_incr.
ApbSetCall == apb_op \in {"try_set_datasize", "try_set_datasize_and_incr"}

\* C21: on the APB2/APB3 AP, try_set_datasize(size) and
\* try_set_datasize_and_incr(size, incr) with size # U32 return
\* UnsupportedTransferWidth(8 * byte count of size), and
\* try_set_datasize_and_incr(U32, Packed) returns
\* UnsupportedAddressIncrement(Packed); in each case no register access is
\* issued, the cached CSW is as before the call, and the result is a
\* function of the arguments alone.
C21_CapabilityErrors ==
    (ApbSetCall /\ ApbCapabilityError(apb_arg) # NoResult) =>
        /\ apb_ret = ApbCapabilityError(apb_arg)
        /\ apb_log = <<>>
        /\ apb_me = apb_me0

\* A U64 request to an AP whose cached AddrInc is Off was refused with
\* UnsupportedTransferWidth(64).
C21_Witness ==
    /\ apb_op = "try_set_datasize" /\ apb_arg = <<"U64">>
    /\ apb_ret = UnsupportedTransferWidth(64)
    /\ apb_me.csw.AddrInc = "Off"

\* The last operation was try_set_datasize_and_incr(U32, incr) with incr Off
\* or Single.
ApbSetIncrCall ==
    /\ apb_op = "try_set_datasize_and_incr"
    /\ apb_arg[1] = "U32" /\ apb_arg[2] \in {"Off", "Single"}

\* C22: try_set_datasize_and_incr(U32, incr) with incr Off or Single issues
\* a CSW write if and only if incr differs from the cached AddrInc; a call
\* that wrote leaves the cache with the AddrInc asked for, so that the same
\* call made again writes nothing (two consecutive calls with one increment
\* issue at most one write); and the value written is the cached CSW with
\* only its AddrInc field replaced.
C22_WriteAvoidance ==
    ApbSetIncrCall =>
        /\ (apb_log # <<>>) <=> (apb_arg[2] # apb_me0.csw.AddrInc)
        /\ apb_log # <<>> => apb_me.csw.AddrInc = apb_arg[2]
        /\ apb_log # <<>> =>
              apb_log[1].value =
                  ApbCswInto([apb_me0.csw EXCEPT !.AddrInc = apb_arg[2]])

\* The positions in main's log of the ERASEALL writes to a control AP.
EraseWrites(ap) ==
    { i \in 1..Len(rc_log) :
        rc_log[i].ap = ap /\ rc_log[i].reg = ERASEALL
            /\ rc_log[i].dir = "write" }

\* The positions in main's log of the ERASEALLSTATUS reads of a control AP.
StatusReads(ap) ==
    { i \in 1..Len(rc_log) :
        rc_log[i].ap = ap /\ rc_log[i].reg = ERASEALLSTATUS
            /\ rc_log[i].dir = "read" }

\* The values main read from a control AP's ERASEALLSTATUS, in order.
StatusValues(ap) ==
    LET IsStatus(e) == e.ap = ap /\ e.reg = ERASEALLSTATUS /\ e.dir = "read"
        reads == SelectSeq(rc_log, IsStatus)
    IN  [i \in 1..Len(reads) |-> reads[i].value]

\* main has left the poll loop of a control AP for the next step.
MovedOn(ap) ==
    \/ rc_pc = "done"
    \/ /\ ap = APP_CTRL
       /\ \/ rc_pc = "erase" /\ rc_i = 2
          \/ EraseWrites(NET_CTRL) # {}

\* C23: to each control AP the recover sequence issues at most one ERASEALL
\* write, of the value 1, before every status read of that AP; when it moves
\* on from the AP it has made as many status reads as the position of the
\* first zero reading: for a status that reads 1, 1, 1, 0 it has issued one
\* write and four reads, the last of which read zero.
C23_OneTriggerThenPoll ==
    \A ap \in {APP_CTRL, NET_CTRL} :
        /\ Cardinality(EraseWrites(ap)) <= 1
        /\ \A w \in EraseWrites(ap) : rc_log[w].value = BitsOf(1)
        /\ \A r \in StatusReads(ap) : \E w \in EraseWrites(ap) : w < r
        /\ MovedOn(ap) =>
              /\ Cardinality(EraseWrites(ap)) = 1
              /\ Len(StatusValues(ap)) = rc_erase_time[ap] + 1
              /\ \A i \in 1..Len(StatusValues(ap)) :
                    (StatusValues(ap)[i] = {}) <=> (i = Len(StatusValues(ap)))
        /\ (MovedOn(ap) /\ rc_erase_time[ap] = 3) =>
              StatusValues(ap) = <<BitsOf(1), BitsOf(1), BitsOf(1), {}>>

\* main went on to the network core after the application core's status
\* read 1, 1, 1, 0.
C23_Witness ==
    /\ rc_i = 2 /\ rc_pc = "poll"
    /\ StatusValues(APP_CTRL) = <<BitsOf(1), BitsOf(1), BitsOf(1), {}>>
    /\ Cardinality(EraseWrites(APP_CTRL)) = 1

\* The positions in main's log of the status reads of a control AP that read
\* zero.
ZeroReads(ap) ==
    { i \in StatusReads(ap) :
        rc_log[i].result = "Ok" /\ rc_log[i].value = {} }

\* The state of the recover sequence: 0 Locked, 1 ErasingApp, 2 ErasingNet,
\* 3 Unlocked.
RecoverState ==
    IF rc_pc = "done" THEN 3
    ELSE IF EraseWrites(NET_CTRL) # {} THEN 2
    ELSE IF EraseWrites(APP_CTRL) # {} THEN 1
    ELSE 0

\* C24: the recover sequence goes through Locked, ErasingApp, ErasingNet and
\* Unlocked in that order, one step of it never skipping a state nor going
\* back; ERASEALL of the network core's control AP (AP 3) is written only
\* after the application core's control AP (AP 2) has had its ERASEALL
\* written and then read status zero; main returns Ok only after both control
\* APs have read status zero.
C24_StatesInOrder ==
    /\ [](\A w \in EraseWrites(NET_CTRL) :
             \E z \in ZeroReads(APP_CTRL) :
                 z < w /\ \E a \in EraseWrites(APP_CTRL) : a < z)
    /\ [](rc_pc = "done" =>
             /\ ZeroReads(APP_CTRL) # {}
             /\ \E z \in ZeroReads(NET_CTRL) : z = Len(rc_log))
    /\ [][RecoverState' = RecoverState \/ RecoverState' = RecoverState + 1]_vars

\* main has returned Ok after two erases that each took time.
C24_Witness ==
    /\ rc_pc = "done" /\ RecoverState = 3
    /\ rc_erase_time[APP_CTRL] > 0 /\ rc_erase_time[NET_CTRL] > 0
    /\ Len(rc_log) > 8

\* Every erase that is started completes.
NoneStuck == \A ap \in {APP_CTRL, NET_CTRL} : rc_erase_time[ap] # Stuck

\* main has returned, with Ok or with an error.
MainEnded == rc_pc \in {"done", "failed"}

\* The latest access of main was a successful status read of a non-zero
\* value.
LastReadPending ==
    /\ rc_log # <<>>
    /\ rc_log[Len(rc_log)].reg = ERASEALLSTATUS
    /\ rc_log[Len(rc_log)].result = "Ok"
    /\ rc_log[Len(rc_log)].value # {}

\* C25: the erase-status poll has no bound of its own.  After a status read
\* of a non-zero value main is still in the poll loop of that control AP,
\* however many reads it has made; main does not return while a control AP's
\* status stays non-zero and no access fails (it returns Ok only on a zero
\* reading of the last control AP); and if every erase completes, main, once
\* called, ends.
C25_PollUnbounded ==
    /\ [](LastReadPending =>
             /\ rc_pc = "poll"
             /\ CtrlAps[rc_i] = rc_log[Len(rc_log)].ap)
    /\ [](rc_pc = "done" => ~LastReadPending /\ ZeroReads(NET_CTRL) # {})
    /\ [](\A ap \in {APP_CTRL, NET_CTRL} :
             (rc_erase_time[ap] = Stuck /\ EraseWrites(ap) # {}
                 /\ rc_log[Len(rc_log)].result = "Ok") => ~MainEnded)
    /\ (NoneStuck /\ rc_pc # "idle") ~> MainEnded

\* main has read a non-zero status MaxPolls times from a control AP whose
\* erase never completes, and is still polling it.
C25_Witness ==
    /\ rc_pc = "poll" /\ rc_polls = MaxPolls
    /\ rc_erase_time[CtrlAps[rc_i]] = Stuck
    /\ LastReadPending

\* ArmError::ReAttachRequired
ReAttachRequired == [kind |-> "ReAttachRequired"]

\* The positions in main's log of the accesses that failed.
FailedAccesses == { i \in 1..Len(rc_log) : rc_log[i].result # "Ok" }

\* C26 (as stated): when an access of the recover sequence fails, main ends
\* at once with ArmError::ReAttachRequired and issues no further access.
C26_AbortsWithReAttachRequired ==
    \A i \in FailedAccesses :
        /\ i = Len(rc_log)
        /\ rc_pc = "failed"
        /\ rc_ret = ReAttachRequired

\* C26 (amended): when an access of the recover sequence fails, main ends at
\* once with that access's own error, passed on as it is (never
\* ReAttachRequired), and issues no further access: a failure of the
\* ERASEALL write or of a status read of the application core's control AP
\* leaves the network core's ERASEALL unwritten.
C26_AbortsWithTheError ==
    /\ \A i \in FailedAccesses :
          /\ i = Len(rc_log)
          /\ rc_pc = "failed"
          /\ rc_ret = RawError(rc_log[i].result)
          /\ rc_log[i].ap = APP_CTRL => EraseWrites(NET_CTRL) = {}
    /\ rc_pc = "failed" => FailedAccesses # {}
    /\ rc_ret # ReAttachRequired

\* A status read of the application core's control AP failed after a
\* non-zero reading.
C26_Witness ==
    /\ rc_pc = "failed"
    /\ rc_log[Len(rc_log)].ap = APP_CTRL
    /\ rc_log[Len(rc_log)].reg = ERASEALLSTATUS
    /\ rc_log[Len(rc_log)].result = "Timeout"
    /\ Len(StatusValues(APP_CTRL)) >= 2

\* C27: ERASEALL of a control AP is written only after the lock-status query
\* of its core has reported the core locked; after a query that reported the
\* core unlocked, or with no query made, no ERASEALL write is issued.
C27_EraseOnlyWhenLocked ==
    \A ap \in {APP_CTRL, NET_CTRL} :
        EraseWrites(ap) # {} => ap \in rc_reports

\* A lock-status query has been made.
Queried == rc_qop # <<>>

\* C28: a lock-status query is one raw register read and no write.  For the
\* nRF5340 it reads register 0x00 (CSW) of the core's AHB AP, returns the
\* decode error if the value read is no CSW, and else reports unlocked iff
\* the DeviceEn bit (bit 6) is set; the control AP is not accessed.  For the
\* nRF9160 it reads register 0x00C of the control AP and reports unlocked iff
\* the value is not zero; the AHB AP is not accessed.  A failed read is
\* returned as the error.
C28_LockQueryIsOneRead ==
    Queried =>
        /\ Len(rc_qlog) = 1
        /\ rc_qlog[1].dir = "read"
        /\ rc_qop[1] = "Nrf5340" =>
              /\ rc_qlog[1].ap = rc_qop[2] /\ rc_qlog[1].reg = 0
              /\ rc_qlog[1].ap # rc_qop[3]
              /\ rc_qlog[1].result = "Ok" =>
                    IF CswTryFrom(rc_qlog[1].value).kind = "Ok"
                    THEN rc_qret = OkBool(6 \in rc_qlog[1].value)
                    ELSE rc_qret = RegisterParseError("CSW", rc_qlog[1].value)
        /\ rc_qop[1] = "Nrf9160" =>
              /\ rc_qlog[1].ap = rc_qop[3] /\ rc_qlog[1].reg = 12
              /\ rc_qlog[1].ap # rc_qop[2]
              /\ rc_qlog[1].result = "Ok" =>
                    rc_qret = OkBool(rc_qlog[1].value # {})
        /\ rc_qlog[1].result # "Ok" => rc_qret = RawError(rc_qlog[1].result)

\* The nRF5340 query has reported a core unlocked on a CSW with DeviceEn set
\* among other bits.
C28_Witness ==
    /\ Queried /\ rc_qop[1] = "Nrf5340"
    /\ rc_qret = OkBool(TRUE)
    /\ 31 \in rc_qlog[1].value

\* MemoryAp::new has returned.
MemoryApNewReturned == mn_pc = "idle" /\ mn_ret # NoResult

\* The positions in the log of MemoryAp::new of the accesses to a register.
NewAccessesTo(reg) == { i \in 1..Len(mn_log) : mn_log[i].reg = reg }

\* C29: MemoryAp::new reads the IDR once, first.  When it returns Ok it has
\* built the variant named by the decoded TYPE, one of the seven variants.
\* For TYPE = JtagComAp it returns WrongApType and for a TYPE that is no
\* enumerator it returns the parse error of the IDR; in both cases it has
\* issued no CSW or CFG access and built no memory AP.
C29_VariantByType ==
    MemoryApNewReturned =>
        LET idr == IdrTryFrom(mn_raw_idr)
        IN  /\ NewAccessesTo("IDR") = {1}
            /\ mn_ret = UnitResult =>
                  /\ mn_ap # NoResult
                  /\ mn_ap.variant = idr.value.TYPE
                  /\ mn_ap.variant \in MemoryApVariants
            /\ mn_ret # UnitResult => mn_ap = NoResult
            /\ (mn_log[1].result = "Ok" /\ Field(mn_raw_idr, 0, 4) = 0
                   /\ idr.kind = "Ok") =>
                  mn_ret = WrongApType /\ Len(mn_log) = 1
            /\ (mn_log[1].result = "Ok"
                   /\ ApTypeFromU8(Field(mn_raw_idr, 0, 4)) = "None") =>
                  /\ mn_ret = RegisterParseError("IDR", mn_raw_idr)
                  /\ Len(mn_log) = 1

\* MemoryAp::new has built an AmbaAhb5 from the IDR 0x2477_0025.
C29_Witness ==
    /\ MemoryApNewReturned /\ mn_ret = UnitResult
    /\ mn_raw_idr = Raw24770025
    /\ mn_ap.variant = "AmbaAhb5"
    /\ Len(mn_log) = 4

\* C30: MemoryAp::new builds a variant, and lets the variant's new() write
\* CSW, only for an AP whose IDR has CLASS = MemAp, whatever its TYPE.
C30_OnlyMemApClass ==
    (mn_ap # NoResult \/ NewAccessesTo("CSW") # {}) =>
        /\ IdrTryFrom(mn_raw_idr).kind = "Ok"
        /\ IdrTryFrom(mn_raw_idr).value.CLASS = "MemAp"

\* What a transfer looks like from outside: its kind, its address and the
\* number of bytes (write_8) or words (write_32, read_32) it carries.
XferShape(t) ==
    [kind |-> t.kind, address |-> t.address,
     count |-> IF t.kind = "read_32" THEN t.payload ELSE Len(t.payload)]

XferShapes(xs) == [i \in 1..Len(xs) |-> XferShape(xs[i])]

\* The bytes before the first 4-byte boundary, the whole words after it and
\* the bytes left over, of the range [a, a + len).
LeadingBytes(a, len) == IF a % 4 = 0 THEN 0 ELSE Min(len, 4 - (a % 4))

WholeWords(a, len) == (len - LeadingBytes(a, len)) \div 4

TrailingBytes(a, len) == len - LeadingBytes(a, len) - 4 * WholeWords(a, len)

\* The three phases of a write of len bytes at a; `head` tells whether the
\* leading write_8 is issued.
WritePlan(a, len, head) ==
    (IF head
     THEN <<[kind |-> "write_8", address |-> a,
             count |-> LeadingBytes(a, len)]>>
     ELSE <<>>)
    \o (IF WholeWords(a, len) > 0
        THEN <<[kind |-> "write_32", address |-> a + LeadingBytes(a, len),
                count |-> WholeWords(a, len)]>>
        ELSE <<>>)
    \o (IF TrailingBytes(a, len) > 0
        THEN <<[kind |-> "write_8",
                address |-> a + LeadingBytes(a, len) + 4 * WholeWords(a, len),
                count |-> TrailingBytes(a, len)]>>
        ELSE <<>>)

\* The transfers of a write follow the plan: a prefix of it while the call
\* runs or when a transfer fails, all of it on Ok; no assert! fails and every
\* write_32 is 4-byte aligned.
WriteFollows(plan) ==
    /\ ret # "panic"
    /\ Len(xfers) <= 3
    /\ IsPrefix(XferShapes(xfers), plan)
    /\ (pc = "idle" /\ ret = "Ok") => XferShapes(xfers) = plan
    /\ \A i \in 1..Len(xfers) :
          /\ xfers[i].kind = "write_32" => xfers[i].address % 4 = 0
          /\ xfers[i].kind = "write_8" => Len(xfers[i].payload) < 4

\* C31 as stated: ArmProbe::write issues at most three transfers, in order a
\* leading write_8 of min(len, 4 - address mod 4) bytes when (and only when)
\* the address is misaligned, one write_32 of the maximal run of whole words
\* and one trailing write_8 of fewer than 4 bytes; every write_32 is 4-byte
\* aligned and the three assertions hold.
C31_LeadingOnlyWhenMisaligned ==
    op = "write" =>
        WriteFollows(WritePlan(arg_address, Len(arg_data),
                               arg_address % 4 # 0))

\* C31: ArmProbe::write issues at most three transfers, in order a leading
\* write_8 whenever the request is unaligned (address mod 4 != 0 or
\* len mod 4 != 0), of the bytes before the first 4-byte boundary (none when
\* the address is aligned), one write_32 of the maximal run of whole words and
\* one trailing write_8 of fewer than 4 bytes; every write_32 is 4-byte
\* aligned and the three assertions hold for every address and length.
C31_ThreePhases ==
    op = "write" =>
        WriteFollows(WritePlan(arg_address, Len(arg_data),
                               arg_address % 4 # 0 \/ Len(arg_data) % 4 # 0))

\* A write at an aligned address of a length that is not a multiple of 4 has
\* returned Ok after an empty leading write_8, a write_32 and a write_8.
C31_Witness ==
    /\ op = "write" /\ pc = "idle" /\ ret = "Ok" /\ supports8 = "yes"
    /\ arg_address % 4 = 0 /\ Len(arg_data) % 4 # 0
    /\ Len(xfers) = 3
    /\ xfers[1].kind = "write_8" /\ xfers[1].payload = <<>>
    /\ xfers[2].kind = "write_32"

\* The least number of 4-byte words that hold n bytes.
CeilWords(n) == CHOOSE w \in 0..n : 4 * w >= n /\ (w = 0 \/ 4 * (w - 1) < n)

\* C32: for an unaligned request (address mod 4 != 0 or len mod 4 != 0)
\* ArmProbe::read issues exactly one read_32, at address - (address mod 4),
\* for ceil((address mod 4 + len) / 4) words, and no read_8: nothing before
\* the read_32 and, once it is issued, nothing else until the call returns.
C32_UnalignedReadIsOneRead32 ==
    (op = "read" /\ (arg_address % 4 # 0 \/ Len(arg_data) % 4 # 0)) =>
        IF pc = "read_fetch"
        THEN xfers = <<>>
        ELSE /\ Len(xfers) = 1
             /\ XferShape(xfers[1]) =
                   [kind |-> "read_32",
                    address |-> arg_address - (arg_address % 4),
                    count |-> CeilWords((arg_address % 4) + Len(arg_data))]

\* An unaligned read of 6 bytes at address 3 has fetched 3 words from 0.
C32_Witness ==
    /\ op = "read" /\ pc = "idle"
    /\ arg_address = 3 /\ Len(arg_data) = 6
    /\ Len(xfers) = 1 /\ xfers[1].ok /\ xfers[1].payload = 3

\* The last call was status() or try_set_datasize_and_incr and returned an
\* error from its register access: a failed transfer, or a value read that
\* does not decode.
ApbAccessFailed ==
    /\ apb_op \in {"status", "try_set_datasize_and_incr"}
    /\ apb_log # <<>>
    /\ \/ apb_log[1].result # "Ok"
       \/ apb_log[1].dir = "read" /\ ApbCswTryFrom(apb_log[1].value).kind # "Ok"

\* C33: the cached CSW of an AmbaApb2Apb3 changes only on success: when the
\* CSW write of try_set_datasize_and_incr fails, or the CSW read of status()
\* fails (transport error or decode error), that error is returned and the
\* cached CSW keeps its previous value; a call that changed the cache
\* returned success.
C33_CacheChangesOnlyOnSuccess ==
    /\ ApbAccessFailed =>
          /\ apb_me = apb_me0
          /\ apb_ret = IF apb_log[1].result # "Ok"
                       THEN RawError(apb_log[1].result)
                       ELSE RegisterParseError("CSW", apb_log[1].value)
    /\ (apb_op \in {"status", "try_set_datasize", "try_set_datasize_and_incr"}
           /\ apb_me # apb_me0) =>
          /\ apb_ret \in {UnitResult, DecodeOk(apb_me.csw)}
          /\ apb_log # <<>> /\ apb_log[1].result = "Ok"

\* status() has read a CSW that does not decode and left the cache alone.
C33_Witness ==
    /\ apb_op = "status"
    /\ apb_log[1].result = "Ok"
    /\ apb_ret.kind = "RegisterParse"
    /\ apb_me = apb_me0

C34_AddrIncCoherent ==
    (apb_pc = "idle" /\ apb_me # NoResult) =>
        AddressIncrementFromU8(Field(apb_hw_csw, 4, 2)) = apb_me.csw.AddrInc

\* The bits of the APB2/APB3 CSW's typed fields: 31, 7, 6, 5:4 and 2:0.
ApbCswFieldBits == {31, 7, 6} \cup (4..5) \cup (0..2)

\* The bits in which two raw values differ.
BitsChanged(x, y) == (x \ y) \cup (y \ x)

\* C40: the APB2/APB3 CSW partitions all 32 bits between its typed fields
\* (bits 31, 7, 6, 5:4, 2:0) and the reserved mask 0x7FFF_FF08, with no
\* overlap and no gap; so for every raw value that decodes,
\* encode(decode(raw)) = raw, writing back what was read leaves the register
\* as it was, and changing only AddrInc or only DbgSwEnable in the typed value
\* changes only bits 5:4 or only bit 31 of the encoded value.
C40_ApbCswPartition ==
    rg_reg = "ApbCSW" =>
        /\ ApbCswFieldBits \cup ApbCswReservedMask = 0..31
        /\ ApbCswFieldBits \cap ApbCswReservedMask = {}
        /\ ReadOk =>
              /\ ApbCswInto(rg_ret.value) = rg_log[1].value
              /\ \A incr \in {"Off", "Single", "Packed"} :
                    /\ BitsChanged(ApbCswInto([rg_ret.value EXCEPT
                                                  !.AddrInc = incr]),
                                   rg_log[1].value) \subseteq 4..5
                    /\ AddressIncrementFromU8(Field(
                          ApbCswInto([rg_ret.value EXCEPT !.AddrInc = incr]),
                          4, 2)) = incr
              /\ \A b \in BOOLEAN :
                    /\ BitsChanged(ApbCswInto([rg_ret.value EXCEPT
                                                  !.DbgSwEnable = b]),
                                   rg_log[1].value) \subseteq {31}
                    /\ (31 \in ApbCswInto([rg_ret.value EXCEPT
                                              !.DbgSwEnable = b])) <=> b
        /\ rg_op = "write" => rg_raw = rg_raw0

\* An APB2/APB3 CSW with bit 3 and bits above 7 set has been read and written
\* back.
C40_Witness ==
    /\ rg_reg = "ApbCSW" /\ rg_op = "write" /\ rg_ret = UnitResult
    /\ 3 \in rg_raw /\ rg_raw \cap (8..30) # {}
    /\ rg_raw = rg_raw0

\* The positions of the failed accesses in the log of read_data / write_data.
FailedDrw == { i \in 1..Len(ap_log) : ~ap_log[i].ok }

\* C35: read_data and write_data stop at the first failing DRW transfer and
\* return its error: the words before it have been transferred, no DRW access
\* is issued for the words after it, and for read_data the entries of values
\* from the failing index on are left unchanged.  A failed access is always
\* the last one of the log and ends the call, so none is issued after it.
C35_StopAtFirstFailure ==
    (ap_op \in {"read_data", "write_data"}) =>
        /\ FailedDrw \subseteq {Len(ap_log)}
        /\ FailedDrw # {} <=> (ap_pc = "idle" /\ ap_ret = "Err")
        /\ FailedDrw # {} =>
              LET k == Len(ap_log)
              IN  /\ k <= Len(values0)
                  /\ \A i \in 1..(k - 1) :
                        /\ ap_log[i].ok
                        /\ ap_op = "read_data" => values[i] = ap_log[i].value
                        /\ ap_op = "write_data" => ap_log[i].value = values0[i]
                  /\ \A i \in k..Len(values0) : values[i] = values0[i]

\* read_data of three words has failed at the second: the first entry holds
\* the word read, the other two are as they were.
C35_Witness ==
    /\ ap_op = "read_data" /\ ap_pc = "idle" /\ ap_ret = "Err"
    /\ Len(values0) = 3 /\ Len(ap_log) = 2
    /\ values[1] # values0[1] /\ values[2] = values0[2]

\* C39: CSW::new(data_size) yields a CSW with DbgSwEnable = 1,
\* AddrInc = Single, SIZE = data_size and, as its documentation states, the
\* PROT bits set: HNONSEC (bit 30) = 1, MasterType (bit 29) = 1 and the cache
\* bits HPROT[0] = 1, HPROT[1] = 1, HPROT[2] = 0, HPROT[3] = 1 (bits 24 to 27)
\* in the encoded value.
C39_CswNewAsDocumented ==
    (rg_reg = "CSW" /\ rg_op = "new") =>
        LET csw == rg_ret.value
            raw == CswInto(csw)
        IN  /\ csw.DbgSwEnable = 1 /\ 31 \in raw
            /\ csw.AddrInc = "Single"
            /\ DataSizeFromU8(Field(raw, 0, 3)) = csw.SIZE
            /\ 30 \in raw
            /\ 29 \in raw
            /\ raw \cap (24..27) = {24, 25, 27}

\* What CSW::new does give: DbgSwEnable, AddrInc = Single and SIZE as asked,
\* every other bit of the encoded value 0.
C39_CswNewPlain ==
    (rg_reg = "CSW" /\ rg_op = "new") =>
        LET csw == rg_ret.value
            raw == CswInto(csw)
        IN  /\ csw.DbgSwEnable = 1
            /\ csw.AddrInc = "Single"
            /\ csw.SIZE \in CswNewSizes
            /\ raw = {31, 4} \cup BitsOf(DataSizeToU32(csw.SIZE))

\* The accesses to CSW of the last read_ap_information, in order.
InfoCswAccesses ==
    LET IsCsw(e) == e.reg = "CSW"
    IN  SelectSeq(ai_log, IsCsw)

\* The positions in the log of the CSW writes and of the CFG reads.
InfoCswWrites ==
    { i \in 1..Len(ai_log) : ai_log[i].reg = "CSW" /\ ai_log[i].dir = "write" }

InfoCfgReads == { i \in 1..Len(ai_log) : ai_log[i].reg = "CFG" }

\* read_ap_information has returned Ok(ApInformation::MemoryAp(..)).
InfoReturnedMemoryAp == ai_pc = "idle" /\ ai_ret.kind = "MemoryAp"

\* C36: when read_ap_information succeeds on an AP of class MemAp, its CSW
\* accesses are, in order: read (old value), write of CSW::new(U8), read (the
\* probe result), write of the old value; the last CSW write carries the old
\* value as it was decoded, it happens before the CFG read, and
\* supports_only_32bit_data_size is true iff the SIZE read back is not U8.
C36_ProbeAndRestore ==
    InfoReturnedMemoryAp =>
        LET cs == InfoCswAccesses
        IN  /\ ai_loc.idr.CLASS = "MemAp"
            /\ Len(cs) = 4
            /\ \A i \in 1..4 : cs[i].result = "Ok"
            /\ cs[1].dir = "read"
            /\ cs[2].dir = "write" /\ cs[2].value = CswInto(CswNew("U8"))
            /\ cs[3].dir = "read"
            /\ cs[4].dir = "write"
            /\ CswTryFrom(cs[4].value) = CswTryFrom(cs[1].value)
            /\ cs[4].value = CswInto(CswTryFrom(cs[1].value).value)
            /\ \A w \in InfoCswWrites : \A c \in InfoCfgReads : w < c
            /\ InfoCfgReads = {Len(ai_log)}
            /\ ai_ret.supports_only_32bit_data_size
                  <=> CswTryFrom(cs[3].value).value.SIZE # "U8"

\* read_ap_information (ap/v2) has succeeded on an AP that keeps SIZE at 32
\* bits: the probe read back U32, and the old CSW, which differs from the
\* probing one, was written back.
C36_Witness ==
    /\ InfoReturnedMemoryAp /\ ai_version = "v2" /\ ai_only32
    /\ ai_ret.supports_only_32bit_data_size
    /\ InfoCswAccesses[4].value # InfoCswAccesses[2].value
    /\ InfoCswAccesses[3].value # InfoCswAccesses[2].value

\* C37: read_ap_information never changes CSW behind the probe's back: on
\* every return path after the probing CSW write has gone through, the one
\* where the read-back of CSW fails included, a write restoring the CSW value
\* read before is issued before the function returns.
C37_AlwaysRestores ==
    (/\ ai_pc = "idle"
     /\ \E i \in InfoCswWrites :
           /\ ai_log[i].result = "Ok"
           /\ ai_log[i].value = CswInto(CswNew("U8"))
           /\ \A j \in InfoCswWrites : i <= j) =>
        LET cs == InfoCswAccesses
        IN  /\ Len(cs) = 4
            /\ cs[4].dir = "write"
            /\ cs[4].value = CswInto(CswTryFrom(cs[1].value).value)

\* C38: for an AP whose IDR class is not MemAp, read_ap_information issues
\* exactly one register read (the IDR) and no register write, and returns
\* ApInformation::Other with the AP's address and the decoded IDR.
C38_OtherApReadsIdrOnly ==
    (/\ ai_log # <<>>
     /\ ai_log[1].result = "Ok"
     /\ IdrTryFrom(ai_log[1].value).kind = "Ok"
     /\ IdrTryFrom(ai_log[1].value).value.CLASS # "MemAp") =>
        /\ ai_pc = "idle"
        /\ Len(ai_log) = 1
        /\ ai_log[1].reg = "IDR" /\ ai_log[1].dir = "read"
        /\ ai_ret.kind = "Other"
        /\ ai_ret.address = ai_loc.access_port
        /\ ai_ret.idr.idr = IdrTryFrom(ai_log[1].value).value
        /\ ai_ret.idr.version = ai_version

\* read_ap_information on port 1 has returned Other for the IDR 0x2476_0025,
\* whose TYPE is that of a memory AP and whose CLASS is not.
C38_Witness ==
    /\ ai_pc = "idle" /\ ai_ret.kind = "Other"
    /\ ai_ret.address = 1
    /\ ai_log[1].value = Raw24770025 \ {16}
    /\ ai_ret.idr.idr.TYPE = "AmbaAhb5"

====
